---------------------------- MODULE Spec2Model ----------------------------
(***************************************************************************)
(* A model of folly::SSLContext (folly/io/async/SSLContext.{h,cpp}).       *)
(*                                                                         *)
(* The context is modelled component by component, each with its own       *)
(* specification over the module's variables:                              *)
(*   SpecCred  certificate / private-key loading                           *)
(*   SpecLife  native handle ownership and the ex-data association         *)
(*   SpecDisp  session-lifecycle relay and session-ticket dispatch         *)
(*   SpecAlpn  protocol advertisement (ALPN)                               *)
(* Calls into the native TLS library are modelled by what the library's    *)
(* manual says they do to the SSL_CTX; where the library may report a      *)
(* failure on its own (allocation, validation) the result is an input.     *)
(***************************************************************************)
EXTENDS Integers, Sequences, FiniteSets

VARIABLES
  \* ---- credentials: the SSL_CTX's CERT structure and the last call
  cert,        \* [pkeys: per key type [x509, privatekey, chain], key: current slot]
  credLast,    \* the last credential call: [op, res, given], and allOk: no call has
               \* raised so far
  \* ---- handle lifecycle
  refcount,    \* SSL_CTX handle -> native reference count (0: not allocated)
  hstate,      \* SSL_CTX handle -> "unused" | "live" | "freed"
  callerRefs,  \* SSL_CTX handle -> references held by code outside SSLContext
  sslRefs,     \* SSL_CTX handle -> SSL connection objects created from it
  exData,      \* SSL_CTX handle -> SSLContext object stored as ex data (0: none)
  sessCb,      \* SSL_CTX handle -> new/remove session callbacks registered
  sniArg,      \* SSL_CTX handle -> servername callback argument (0: none)
  hopts,       \* SSL_CTX handle -> options, modes and settings applied to it
  objState,    \* SSLContext object -> "unborn" | "alive" | "destroyed" | "failed"
  objAdopted,  \* SSLContext object -> built by the adopting constructor
  ctx_,        \* SSLContext object -> its ctx_ member (0: nullptr)
  lifeLast,    \* the last lifecycle step: [op, obj, h, before]
  \* ---- dispatch (one live context)
  sessionLifecycleCallbacks_,  \* observer registered (BOOLEAN)
  ticketHandler_,              \* 0: nullptr, otherwise a handler id
  ticketCbRegistered,          \* SSL_CTX_set_tlsext_ticket_key_cb done
  sessRef,     \* session -> native reference count
  sessHeld,    \* session -> [lib, observer, manager]: references each holds
  dispLast,    \* the last dispatch: what it was and what it did
  \* ---- protocol advertisement
  advertisedNextProtocols_,       \* Seq of [protocols: buffer, length]
  advertisedNextProtocolWeights_, \* Seq of Int
  nextProtocolDistribution_,      \* the weights the distribution was built from
  alpnSelectCb,                   \* negotiation callback registered with the library
  alpnProtos,                     \* the primary offer published on the SSL_CTX
  heap,                           \* allocated group buffers: id -> bytes
  alpnAllowMismatch_,
  alpnDestroyed,                  \* the context's destructor has run
  alpnLast,                       \* the last ALPN call: [op, ret, ...]
  \* ---- peer verification policy (one context)
  verBuilt,        \* "none" | "fresh" | "adopted": the constructor that built it
  verifyPeer_,     \* SSLVerifyPeerEnum
  verifyClient_,   \* VerifyClientCertificate
  verifyServer_,   \* VerifyServerCertificate
  checkPeerName_,
  peerFixedName_,
  verifyMode,      \* the verify mode held by the SSL_CTX (SSL_CTX_set_verify)
  verLast,         \* the last verification call: [op, res, arg, mode, ...]
  \* ---- server-name dispatch (one context)
  clientHelloCbs_, \* Seq of client-hello callbacks, in registration order
  serverNameCb_,   \* a server-name callback is set (BOOLEAN)
  sniLast,         \* the last dispatch: [op, ret, al, log, ...]
  \* ---- collaborator slots (one context)
  slotBuilt,        \* "none" | "fresh" | "adopted": the constructor that built it
  collector_,       \* 0: nullptr, otherwise a password collector
  passwdCb,         \* passwordCallback registered on the SSL_CTX with this as data
  sslAcceptRunner_, \* 0: nullptr, 1: an SSLAcceptRunner, above: a subclass
  clientCAs,        \* the client CA list of the SSL_CTX (0: none)
  slotLast,         \* the last call on a slot: [op, ...]
  \* ---- name matching
  matchLast,        \* the last matchName call: [host, pattern, match]
  \* ---- concurrent handshakes on one context
  pc,               \* thread -> [op, i]: the dispatch it is in ("idle": none) and
                    \* the group index it has drawn (-1: none)
  prng,             \* thread -> the state of the thread's random generator
  \* ---- wire encoding of the protocol groups
  alpnGiven,        \* the items the last set call was given
  \* ---- protocol version bounds
  proto,            \* object -> [state, handle, min, max]: whether it was built,
                    \* whether a native handle was created, and the handle's bounds
  protoLast,        \* the last call: [op, obj, version]
  \* ---- the native error queue
  errQueue,         \* Seq of the errors queued, oldest first
  errLast           \* the last call: [op, res, native, text, tolerated, mismatch]

credVars == <<cert, credLast>>
lifeVars == <<refcount, hstate, callerRefs, sslRefs, exData, sessCb, sniArg, hopts,
              objState, objAdopted, ctx_, lifeLast>>
dispVars == <<sessionLifecycleCallbacks_, ticketHandler_, ticketCbRegistered,
              sessRef, sessHeld, dispLast>>
alpnVars == <<advertisedNextProtocols_, advertisedNextProtocolWeights_,
              nextProtocolDistribution_, alpnSelectCb, alpnProtos, heap,
              alpnAllowMismatch_, alpnDestroyed, alpnLast>>
verVars == <<verBuilt, verifyPeer_, verifyClient_, verifyServer_, checkPeerName_,
             peerFixedName_, verifyMode, verLast>>
sniVars == <<clientHelloCbs_, serverNameCb_, sniLast>>
slotVars == <<slotBuilt, collector_, passwdCb, sslAcceptRunner_, clientCAs, slotLast>>
matchVars == <<matchLast>>
concVars == <<pc, prng>>
wireVars == <<alpnGiven>>
protoVars == <<proto, protoLast>>
errVars == <<errQueue, errLast>>
restVars == <<slotVars, matchVars, concVars, wireVars, protoVars, errVars>>
vars == <<credVars, lifeVars, dispVars, alpnVars, verVars, sniVars, restVars>>

(***************************************************************************)
(* CREDENTIALS                                                             *)
(***************************************************************************)
\* Distinct RSA key pairs.
NumKeys == 2
\* The longest certificate chain the model lets one slot accumulate.
MaxStoredChain == 66

KeyTypes == {"RSA", "EC"}
\* A private key, and the public key a certificate certifies, are [type, id]:
\* NumKeys RSA key pairs and one EC key pair.
Keys == [type : {"RSA"}, id : 1..NumKeys] \cup {[type |-> "EC", id |-> 1]}
NoKey == [type |-> "none", id |-> 0]
Leafs == Keys
NoCert == [type |-> "none", id |-> 0]
\* The i-th intermediate certificate after the leaf in a PEM chain.
CaCert(i) == [type |-> "CA", id |-> i]

\* X509_check_private_key: the key is the one the certificate certifies.
X509_check_private_key(x, k) == x.type = k.type /\ x.id = k.id

EmptySlot == [x509 |-> NoCert, privatekey |-> NoKey, chain |-> <<>>]
\* ssl_cert_new: no certificate, no key, current slot the RSA one.
NewCert == [pkeys |-> [t \in KeyTypes |-> EmptySlot], key |-> "RSA"]

\* SSL_CTX_use_certificate: installs x in the slot of its key type and makes
\* that slot current; a private key already in the slot that does not match
\* is dropped without an error.  Never fails for a parsed certificate.
SSL_CTX_use_certificate(c, x) ==
  [pkeys |-> [c.pkeys EXCEPT ![x.type] =
                [x509 |-> x,
                 privatekey |-> IF @.privatekey # NoKey
                                   /\ ~X509_check_private_key(x, @.privatekey)
                                THEN NoKey ELSE @.privatekey,
                 chain |-> @.chain]],
   key |-> x.type]

\* SSL_CTX_use_PrivateKey: fails (0) when the slot of the key's type holds a
\* certificate the key does not match; library versions before 3.0 then also
\* drop that certificate (dropCert).  Otherwise installs the key and makes
\* its slot current.
SSL_CTX_use_PrivateKey(c, k, dropCert) ==
  IF c.pkeys[k.type].x509 # NoCert /\ ~X509_check_private_key(c.pkeys[k.type].x509, k)
  THEN [ctx |-> IF dropCert THEN [c EXCEPT !.pkeys[k.type].x509 = NoCert] ELSE c,
        ret |-> 0]
  ELSE [ctx |-> [pkeys |-> [c.pkeys EXCEPT ![k.type].privatekey = k],
                 key |-> k.type],
        ret |-> 1]

\* SSL_CTX_add1_chain_cert, for each of xs in turn: appends to the chain of
\* the current slot.
SSL_CTX_add1_chain_cert(c, xs) ==
  [c EXCEPT !.pkeys[c.key].chain = @ \o xs]

\* SSL_CTX_check_private_key: on the current slot; 1 when it holds a
\* certificate and a private key that match.
SSL_CTX_check_private_key(c) ==
  IF c.pkeys[c.key].x509 # NoCert /\ c.pkeys[c.key].privatekey # NoKey
     /\ X509_check_private_key(c.pkeys[c.key].x509, c.pkeys[c.key].privatekey)
  THEN 1 ELSE 0

isCertKeyPairValid(c) == SSL_CTX_check_private_key(c) = 1

kMaxCertChain == 64

\* A chain loop that lets one certificate more through.
ChainLoopOneMore(c, certs) ==
  IF Len(certs) - 1 > kMaxCertChain
  THEN [ctx |-> SSL_CTX_add1_chain_cert(c, SubSeq(certs, 2, kMaxCertChain + 2)),
        res |-> "runtime_error"]
  ELSE [ctx |-> SSL_CTX_add1_chain_cert(c, SubSeq(certs, 2, Len(certs))),
        res |-> "ok"]

\* The chain loop of loadCertificateFromBufferPEM, certs[1] being the leaf
\* already installed in c.  Iteration i (from 0) reads certs[i + 2]: with no
\* such block the call returns; otherwise the certificate is added; after
\* kMaxCertChain iterations the call throws.  So the loop adds the blocks
\* after the leaf, the first kMaxCertChain of them, and throws iff there are
\* kMaxCertChain or more.
ChainLoop(c, certs) ==
  IF Len(certs) - 1 >= kMaxCertChain
  THEN [ctx |-> SSL_CTX_add1_chain_cert(c, SubSeq(certs, 2, kMaxCertChain + 1)),
        res |-> "runtime_error"]
  ELSE [ctx |-> SSL_CTX_add1_chain_cert(c, SubSeq(certs, 2, Len(certs))),
        res |-> "ok"]

\* A PEM buffer: isNull (data() == nullptr), and the certificates it parses
\* to (<<>>: empty or not PEM).
loadCertificateFromBufferPEM(c, buf) ==
  IF buf.isNull THEN [ctx |-> c, res |-> "invalid_argument"]
  ELSE IF buf.certs = <<>> THEN [ctx |-> c, res |-> "runtime_error"]
  ELSE ChainLoop(SSL_CTX_use_certificate(c, buf.certs[1]), buf.certs)

\* After the leaf of SSL_CTX_use_certificate_chain_file: the chain of the
\* current slot is cleared and every further certificate appended to it.
ReplaceChain(c, certs) == [c EXCEPT !.pkeys[c.key].chain = Tail(certs)]

SSL_CTX_use_certificate_chain_file(c, certs) ==
  IF certs = <<>> THEN [ctx |-> c, ret |-> 0]
  ELSE [ctx |-> ReplaceChain(SSL_CTX_use_certificate(c, certs[1]), certs), ret |-> 1]

\* r: what the native call gave.
ThrowUnless(r, ok) ==
  [ctx |-> r.ctx, res |-> IF r.ret = ok THEN "ok" ELSE "runtime_error"]

\* A file: isNull (path or format is nullptr), and what it parses to.
loadCertificate(c, file, format) ==
  IF file.isNull THEN [ctx |-> c, res |-> "invalid_argument"]
  ELSE IF format = "PEM"
       THEN ThrowUnless(SSL_CTX_use_certificate_chain_file(c, file.certs), 1)
       ELSE [ctx |-> c, res |-> "runtime_error"]

\* A PEM key buffer: isNull, and the key it parses to (NoKey: none).
loadPrivateKeyFromBufferPEM(c, buf, dropCert) ==
  IF buf.isNull THEN [ctx |-> c, res |-> "invalid_argument"]
  ELSE IF buf.key = NoKey THEN [ctx |-> c, res |-> "runtime_error"]
  ELSE ThrowUnless(SSL_CTX_use_PrivateKey(c, buf.key, dropCert), 1)

\* SSL_CTX_use_PrivateKey_file: 0 when the file holds no key.
SSL_CTX_use_PrivateKey_file(c, k, dropCert) ==
  IF k = NoKey THEN [ctx |-> c, ret |-> 0]
  ELSE SSL_CTX_use_PrivateKey(c, k, dropCert)

loadPrivateKey(c, file, format, dropCert) ==
  IF file.isNull THEN [ctx |-> c, res |-> "invalid_argument"]
  ELSE IF format = "PEM"
       THEN ThrowUnless(SSL_CTX_use_PrivateKey_file(c, file.key, dropCert), 1)
       ELSE [ctx |-> c, res |-> "runtime_error"]

\* The final check of both combined loaders.
PairCheck(c) == IF ~isCertKeyPairValid(c) THEN "runtime_error" ELSE "ok"

\* The rest of a combined loader once the certificate call has given r1 ...
ThenKeyFromBuffer(r1, kbuf, dropCert) ==
  IF r1.res # "ok" THEN r1 ELSE loadPrivateKeyFromBufferPEM(r1.ctx, kbuf, dropCert)
ThenKeyFromFile(r1, kfile, kfmt, dropCert) ==
  IF r1.res # "ok" THEN r1 ELSE loadPrivateKey(r1.ctx, kfile, kfmt, dropCert)
\* ... and once the key call has given r2.
ThenPairCheck(r2) ==
  IF r2.res # "ok" THEN r2 ELSE [ctx |-> r2.ctx, res |-> PairCheck(r2.ctx)]

loadCertKeyPairFromBufferPEM(c, cbuf, kbuf, dropCert) ==
  ThenPairCheck(ThenKeyFromBuffer(loadCertificateFromBufferPEM(c, cbuf), kbuf, dropCert))

loadCertKeyPairFromFiles(c, cfile, kfile, cfmt, kfmt, dropCert) ==
  ThenPairCheck(ThenKeyFromFile(loadCertificate(c, cfile, cfmt), kfile, kfmt, dropCert))

\* ---- inputs
Rep(x, n) == [i \in 1..n |-> x]
\* The n certificates after the leaf of a PEM chain.
CaChain(n) == [i \in 1..n |-> CaCert(i)]

\* Certificate inputs: a lone leaf of every key, and chains of exactly and of
\* one more than kMaxCertChain certificates.
CertSeqs ==
  {<<>>} \cup {<<l>> : l \in Leafs}
         \cup {<<[type |-> "RSA", id |-> 1]>> \o CaChain(n - 1) :
                 n \in {kMaxCertChain, kMaxCertChain + 1}}
CertBufs == {[isNull |-> TRUE, certs |-> <<>>]}
            \cup {[isNull |-> FALSE, certs |-> s] : s \in CertSeqs}
KeyBufs == {[isNull |-> TRUE, key |-> NoKey]}
           \cup {[isNull |-> FALSE, key |-> k] : k \in Keys \cup {NoKey}}
Formats == {"PEM", "DER"}

\* What a call was given, for the claims.  A certificate input is well formed
\* when it is there, parses and (a buffer) stays within kMaxCertChain; a key
\* input when it is there and parses.
CertBufferGood(cbuf) ==
  ~cbuf.isNull /\ cbuf.certs # <<>> /\ Len(cbuf.certs) <= kMaxCertChain
CertFileGood(cfile, fmt) == ~cfile.isNull /\ cfile.certs # <<>> /\ fmt = "PEM"
KeyBufferGood(kbuf) == ~kbuf.isNull /\ kbuf.key # NoKey
KeyFileGood(kfile, fmt) == KeyBufferGood(kfile) /\ fmt = "PEM"
Single(good) == IF good THEN "valid" ELSE "invalid"
\* A combined loader's pair: "matching", "unrelated" (both well formed, the
\* key not the certificate's) or "invalid".
Pair(good, cbuf, kbuf) ==
  IF ~good THEN "invalid"
  ELSE IF X509_check_private_key(cbuf.certs[1], kbuf.key) THEN "matching"
  ELSE "unrelated"

ChainFits(c) == \A t \in KeyTypes : Len(c.pkeys[t].chain) <= MaxStoredChain

InitCred ==
  /\ cert = NewCert
  /\ credLast = [op |-> "none", res |-> "ok", given |-> "invalid", allOk |-> TRUE,
                 changed |-> FALSE, n |-> 0, leaf |-> NoCert]

\* certs: the certificates of the buffer given to loadCertificateFromBufferPEM
\* (<<>> in the other calls).
CredCore(r, op, given, certs) ==
  /\ ChainFits(r.ctx)
  /\ cert' = r.ctx
  /\ credLast' = [op |-> op, res |-> r.res, given |-> given,
                  allOk |-> credLast.allOk /\ r.res = "ok",
                  changed |-> r.ctx # cert,
                  n |-> Len(certs),
                  leaf |-> IF certs = <<>> THEN NoCert ELSE certs[1]]

CredStep(r, op, given, certs) ==
  /\ CredCore(r, op, given, certs)
  /\ UNCHANGED <<lifeVars, dispVars, alpnVars, verVars, sniVars, restVars>>

LoadCertificate ==
  \E f \in CertBufs, fmt \in Formats :
    CredStep(loadCertificate(cert, f, fmt), "loadCertificate",
             Single(CertFileGood(f, fmt)), <<>>)

LoadCertificateFromBufferPEM ==
  \E b \in CertBufs :
    CredStep(loadCertificateFromBufferPEM(cert, b), "loadCertificateFromBufferPEM",
             Single(CertBufferGood(b)), b.certs)

LoadPrivateKey ==
  \E f \in KeyBufs, fmt \in Formats, d \in BOOLEAN :
    CredStep(loadPrivateKey(cert, f, fmt, d), "loadPrivateKey",
             Single(KeyFileGood(f, fmt)), <<>>)

LoadPrivateKeyFromBufferPEM ==
  \E b \in KeyBufs, d \in BOOLEAN :
    CredStep(loadPrivateKeyFromBufferPEM(cert, b, d), "loadPrivateKeyFromBufferPEM",
             Single(KeyBufferGood(b)), <<>>)

LoadCertKeyPairFromBufferPEM ==
  \E cb \in CertBufs, kb \in KeyBufs, d \in BOOLEAN :
    CredStep(loadCertKeyPairFromBufferPEM(cert, cb, kb, d),
             "loadCertKeyPairFromBufferPEM",
             Pair(CertBufferGood(cb) /\ KeyBufferGood(kb), cb, kb), <<>>)

LoadCertKeyPairFromFiles ==
  \E cf \in CertBufs, kf \in KeyBufs, cfmt \in Formats, kfmt \in Formats,
     d \in BOOLEAN :
    CredStep(loadCertKeyPairFromFiles(cert, cf, kf, cfmt, kfmt, d),
             "loadCertKeyPairFromFiles",
             Pair(CertFileGood(cf, cfmt) /\ KeyFileGood(kf, kfmt), cf, kf), <<>>)

NextCred ==
  \/ LoadCertificate
  \/ LoadCertificateFromBufferPEM
  \/ LoadPrivateKey
  \/ LoadPrivateKeyFromBufferPEM
  \/ LoadCertKeyPairFromBufferPEM
  \/ LoadCertKeyPairFromFiles

(***************************************************************************)
(* HANDLE LIFECYCLE                                                        *)
(***************************************************************************)
\* SSL_CTX handles and SSLContext objects the model follows.
MaxHandles == 2
MaxObjs == 2
\* SSL connection objects alive per handle.
MaxSSL == 1

Handles == 1..MaxHandles
Objs == 1..MaxObjs
SSLVersions == {"SSLv2", "SSLv3", "TLSv1", "TLSv1_2", "TLSv1_3"}

InitLife ==
  /\ refcount = [h \in Handles |-> 0]
  /\ hstate = [h \in Handles |-> "unused"]
  /\ callerRefs = [h \in Handles |-> 0]
  /\ sslRefs = [h \in Handles |-> 0]
  /\ exData = [h \in Handles |-> 0]
  /\ sessCb = [h \in Handles |-> FALSE]
  /\ sniArg = [h \in Handles |-> 0]
  /\ hopts = [h \in Handles |-> {}]
  /\ objState = [o \in Objs |-> "unborn"]
  /\ objAdopted = [o \in Objs |-> FALSE]
  /\ ctx_ = [o \in Objs |-> 0]
  /\ lifeLast = [op |-> "none", obj |-> 0, h |-> 0, before |-> 0]

\* What SSLContext(SSLVersion) applies to its new handle before setupCtx:
\* configureProtocolVersion, SSL_MODE_AUTO_RETRY, SSL_OP_NO_COMPRESSION.
FreshSettings == {"min_proto_version", "SSL_MODE_AUTO_RETRY", "SSL_OP_NO_COMPRESSION"}

\* The handle SSL_CTX_new returns: one not in use (the lowest, the handles
\* being interchangeable).
FreshHandle == CHOOSE h \in Handles :
                 hstate[h] = "unused" /\ \A g \in Handles : hstate[g] = "unused" => h <= g

\* An adoption that takes no reference.
NoUpRef(h) == refcount
\* SSL_CTX_up_ref in the adopting constructor.
SSL_CTX_up_ref(h) == [refcount EXCEPT ![h] = @ + 1]
\* SSL_new takes a reference on the SSL_CTX for the connection it returns.
SSL_new(h) == [refcount EXCEPT ![h] = @ + 1]

\* SSL_CTX_free: one reference less; the last one frees the SSL_CTX, and with
\* it its ex data and callback registrations.
SSL_CTX_free(h) ==
  /\ refcount' = [refcount EXCEPT ![h] = @ - 1]
  /\ hstate' = [hstate EXCEPT ![h] = IF refcount[h] = 1 THEN "freed" ELSE @]
  /\ exData' = [exData EXCEPT ![h] = IF refcount[h] = 1 THEN 0 ELSE @]
  /\ sessCb' = [sessCb EXCEPT ![h] = IF refcount[h] = 1 THEN FALSE ELSE @]
  /\ sniArg' = [sniArg EXCEPT ![h] = IF refcount[h] = 1 THEN 0 ELSE @]
  /\ hopts' = [hopts EXCEPT ![h] = IF refcount[h] = 1 THEN {} ELSE @]

\* setupCtx(ctx) run by object o on a handle that has the settings `applied`:
\* internal session cache off, ex data := this, session callbacks set.
setupCtx(h, o, applied) ==
  /\ hopts' = [hopts EXCEPT ![h] = applied \cup {"SSL_SESS_CACHE_NO_INTERNAL"}]
  /\ exData' = [exData EXCEPT ![h] = o]
  /\ sessCb' = [sessCb EXCEPT ![h] = TRUE]

\* SSLContext::SSLContext(SSLVersion).  A TLSv1_3 floor throws before any
\* handle exists; so does SSL_CTX_new returning nullptr (newOk = FALSE).
ConstructFresh ==
  \E o \in Objs, version \in SSLVersions, newOk \in BOOLEAN :
    /\ objState[o] = "unborn"
    /\ \E h \in Handles : hstate[h] = "unused"
    /\ IF version = "TLSv1_3" \/ ~newOk
       THEN /\ objState' = [objState EXCEPT ![o] = "failed"]
            /\ lifeLast' = [op |-> "constructFailed", obj |-> o, h |-> 0, before |-> 0]
            /\ UNCHANGED <<refcount, hstate, exData, sessCb, sniArg, hopts, ctx_>>
       ELSE LET h == FreshHandle IN
            /\ refcount' = [refcount EXCEPT ![h] = 1]
            /\ hstate' = [hstate EXCEPT ![h] = "live"]
            /\ ctx_' = [ctx_ EXCEPT ![o] = h]
            /\ setupCtx(h, o, FreshSettings)
            /\ sniArg' = [sniArg EXCEPT ![h] = o]
            /\ objState' = [objState EXCEPT ![o] = "alive"]
            /\ lifeLast' = [op |-> "construct", obj |-> o, h |-> h, before |-> 0]
    /\ UNCHANGED <<callerRefs, sslRefs, objAdopted>>
    /\ UNCHANGED <<credVars, dispVars, alpnVars, verVars, sniVars, restVars>>

\* SSLContext::SSLContext(SSL_CTX* ctx) on a handle the caller can name: one
\* it holds a reference to, or one obtained from a live context's
\* getSSLCtx().  setupCtx runs first; a failing SSL_CTX_up_ref (upRefOk =
\* FALSE) throws, and the object never comes to life.
ConstructAdopt ==
  \E o \in Objs, h \in Handles, upRefOk \in BOOLEAN :
    /\ objState[o] = "unborn"
    /\ hstate[h] = "live"
    /\ callerRefs[h] > 0 \/ \E p \in Objs : objState[p] = "alive" /\ ctx_[p] = h
    /\ setupCtx(h, o, hopts[h])
    /\ IF upRefOk
       THEN /\ refcount' = SSL_CTX_up_ref(h)
            /\ ctx_' = [ctx_ EXCEPT ![o] = h]
            /\ objState' = [objState EXCEPT ![o] = "alive"]
            /\ objAdopted' = [objAdopted EXCEPT ![o] = TRUE]
            /\ lifeLast' = [op |-> "adopt", obj |-> o, h |-> h, before |-> refcount[h]]
       ELSE /\ objState' = [objState EXCEPT ![o] = "failed"]
            /\ lifeLast' = [op |-> "adoptFailed", obj |-> o, h |-> h,
                            before |-> refcount[h]]
            /\ UNCHANGED <<refcount, ctx_, objAdopted>>
    /\ UNCHANGED <<hstate, callerRefs, sslRefs, sniArg>>
    /\ UNCHANGED <<credVars, dispVars, alpnVars, verVars, sniVars, restVars>>

\* SSLContext::~SSLContext.
Destroy ==
  \E o \in Objs :
    /\ objState[o] = "alive"
    /\ IF ctx_[o] # 0
       THEN SSL_CTX_free(ctx_[o])
       ELSE UNCHANGED <<refcount, hstate, exData, sessCb, sniArg, hopts>>
    /\ ctx_' = [ctx_ EXCEPT ![o] = 0]
    /\ objState' = [objState EXCEPT ![o] = "destroyed"]
    /\ lifeLast' = [op |-> "destroy", obj |-> o, h |-> ctx_[o],
                    before |-> IF ctx_[o] # 0 THEN refcount[ctx_[o]] ELSE 0]
    /\ UNCHANGED <<callerRefs, sslRefs, objAdopted>>
    /\ UNCHANGED <<credVars, dispVars, alpnVars, verVars, sniVars, restVars>>

\* SSLContext::createSSL.
CreateSSL ==
  \E o \in Objs :
    /\ objState[o] = "alive"
    /\ sslRefs[ctx_[o]] < MaxSSL
    /\ refcount' = SSL_new(ctx_[o])
    /\ sslRefs' = [sslRefs EXCEPT ![ctx_[o]] = @ + 1]
    /\ lifeLast' = [op |-> "createSSL", obj |-> o, h |-> ctx_[o],
                    before |-> refcount[ctx_[o]]]
    /\ UNCHANGED <<hstate, callerRefs, exData, sessCb, sniArg, hopts, objState,
                   objAdopted, ctx_>>
    /\ UNCHANGED <<credVars, dispVars, alpnVars, verVars, sniVars, restVars>>

\* The connection layer frees a connection (SSL_free).
FreeSSL ==
  \E h \in Handles :
    /\ sslRefs[h] > 0
    /\ SSL_CTX_free(h)
    /\ sslRefs' = [sslRefs EXCEPT ![h] = @ - 1]
    /\ lifeLast' = [op |-> "freeSSL", obj |-> 0, h |-> h, before |-> refcount[h]]
    /\ UNCHANGED <<callerRefs, objState, objAdopted, ctx_>>
    /\ UNCHANGED <<credVars, dispVars, alpnVars, verVars, sniVars, restVars>>

\* Code outside SSLContext creates a native handle of its own (to hand to the
\* adopting constructor) and applies none of the settings to it ...
CallerNew ==
  /\ \E h \in Handles : hstate[h] = "unused"
  /\ LET h == FreshHandle IN
     /\ hopts' = [hopts EXCEPT ![h] = {}]
     /\ refcount' = [refcount EXCEPT ![h] = 1]
     /\ hstate' = [hstate EXCEPT ![h] = "live"]
     /\ callerRefs' = [callerRefs EXCEPT ![h] = 1]
     /\ lifeLast' = [op |-> "callerNew", obj |-> 0, h |-> h, before |-> 0]
  /\ UNCHANGED <<sslRefs, exData, sessCb, sniArg, objState, objAdopted, ctx_>>
  /\ UNCHANGED <<credVars, dispVars, alpnVars, verVars, sniVars, restVars>>

\* ... and releases it.
CallerFree ==
  \E h \in Handles :
    /\ callerRefs[h] > 0
    /\ SSL_CTX_free(h)
    /\ callerRefs' = [callerRefs EXCEPT ![h] = @ - 1]
    /\ lifeLast' = [op |-> "callerFree", obj |-> 0, h |-> h, before |-> refcount[h]]
    /\ UNCHANGED <<sslRefs, objState, objAdopted, ctx_>>
    /\ UNCHANGED <<credVars, dispVars, alpnVars, verVars, sniVars, restVars>>

NextLife ==
  \/ ConstructFresh
  \/ ConstructAdopt
  \/ Destroy
  \/ CreateSSL
  \/ FreeSSL
  \/ CallerNew
  \/ CallerFree

\* SSLContext::getFromSSLCtx.
getFromSSLCtx(h) == exData[h]

(***************************************************************************)
(* DISPATCH: session-lifecycle relay and session-ticket callback, on one   *)
(* context that stays alive                                                *)
(***************************************************************************)
\* Sessions the native library mints, and references one party may hold.
MaxSessions == 1
MaxHeld == 2

Sessions == 1..MaxSessions
TicketHandlers == 0..1      \* 0: nullptr
NoRefs == [lib |-> 0, observer |-> 0, manager |-> 0]

NoDispCall == [op |-> "none", s |-> 0, observer |-> FALSE, manager |-> FALSE,
               before |-> 0, toObserver |-> 0, toManager |-> 0, released |-> 0,
               fatal |-> FALSE, order |-> <<>>]

InitDisp ==
  /\ sessionLifecycleCallbacks_ = FALSE
  /\ ticketHandler_ = 0
  /\ ticketCbRegistered = FALSE
  /\ sessRef = [s \in Sessions |-> 0]
  /\ sessHeld = [s \in Sessions |-> NoRefs]
  /\ dispLast = NoDispCall

\* SSLContext::setSessionLifecycleCallbacks (cb: an observer, or nullptr).
SetSessionLifecycleCallbacks ==
  \E cb \in BOOLEAN :
    /\ ~dispLast.fatal
    /\ sessionLifecycleCallbacks_' = cb
    /\ dispLast' = [NoDispCall EXCEPT !.op = "setSessionLifecycleCallbacks"]
    /\ UNCHANGED <<ticketHandler_, ticketCbRegistered, sessRef, sessHeld>>
    /\ UNCHANGED <<credVars, lifeVars, alpnVars, verVars, sniVars, restVars>>

\* SSLContext::setTicketHandler.
SetTicketHandler ==
  \E handler \in TicketHandlers :
    /\ ~dispLast.fatal
    /\ ticketHandler_' = handler
    /\ ticketCbRegistered' = TRUE
    /\ dispLast' = [NoDispCall EXCEPT !.op = "setTicketHandler"]
    /\ UNCHANGED <<sessionLifecycleCallbacks_, sessRef, sessHeld>>
    /\ UNCHANGED <<credVars, lifeVars, alpnVars, verVars, sniVars, restVars>>

\* dispatchTicketCrypto, called by the library once the callback is
\* registered: a null handler is LOG(FATAL).
DispatchTicketCrypto ==
  /\ ticketCbRegistered
  /\ ~dispLast.fatal
  /\ dispLast' = [NoDispCall EXCEPT !.op = "ticket", !.fatal = (ticketHandler_ = 0)]
  /\ UNCHANGED <<sessionLifecycleCallbacks_, ticketHandler_, ticketCbRegistered,
                 sessRef, sessHeld>>
  /\ UNCHANGED <<credVars, lifeVars, alpnVars, verVars, sniVars, restVars>>

\* The library mints a session and keeps a reference to it.
MintSession ==
  \E s \in Sessions :
    /\ sessRef[s] = 0
    /\ ~dispLast.fatal
    /\ sessRef' = [sessRef EXCEPT ![s] = 1]
    /\ sessHeld' = [sessHeld EXCEPT ![s] = [NoRefs EXCEPT !.lib = 1]]
    /\ dispLast' = [NoDispCall EXCEPT !.op = "mint", !.s = s]
    /\ UNCHANGED <<sessionLifecycleCallbacks_, ticketHandler_, ticketCbRegistered>>
    /\ UNCHANGED <<credVars, lifeVars, alpnVars, verVars, sniVars, restVars>>

\* What newSessionCallback does with references, given whether an observer is
\* registered (cb) and whether the connection has a session manager:
\* upRef: SSL_SESSION_up_ref calls; toObserver / toManager: references handed
\* over by unique_ptr; released: references freed when sessionPtr goes out of
\* scope still owning the session; order: the onNewSession calls made, in
\* the order made.
RelayWithoutUpRef(cb, sessionManager) ==
  [upRef |-> 0,
   toObserver |-> IF cb THEN 1 ELSE 0,
   toManager |-> IF sessionManager THEN 1 ELSE 0,
   released |-> IF sessionManager THEN 0 ELSE 1,
   order |-> (IF cb THEN <<"observer">> ELSE <<>>)
               \o (IF sessionManager THEN <<"manager">> ELSE <<>>)]
\* A relay that offers the session to the manager first.
RelayManagerFirst(cb, sessionManager) ==
  [upRef |-> IF cb THEN 1 ELSE 0,
   toObserver |-> IF cb THEN 1 ELSE 0,
   toManager |-> IF sessionManager THEN 1 ELSE 0,
   released |-> IF sessionManager THEN 0 ELSE 1,
   order |-> (IF sessionManager THEN <<"manager">> ELSE <<>>)
               \o (IF cb THEN <<"observer">> ELSE <<>>)]
newSessionCallback(cb, sessionManager) ==
  [upRef |-> IF cb THEN 1 ELSE 0,
   toObserver |-> IF cb THEN 1 ELSE 0,
   toManager |-> IF sessionManager THEN 1 ELSE 0,
   released |-> IF sessionManager THEN 0 ELSE 1,
   order |-> (IF cb THEN <<"observer">> ELSE <<>>)
               \o (IF sessionManager THEN <<"manager">> ELSE <<>>)]

\* A new-session notification for a live session: the library takes one
\* reference for the callback, which returns 1 (the reference is now the
\* relay's to dispose of).
NewSessionCallback ==
  \E s \in Sessions, sessionManager \in BOOLEAN :
    LET r == newSessionCallback(sessionLifecycleCallbacks_, sessionManager) IN
    /\ sessHeld[s].lib > 0
    /\ ~dispLast.fatal
    /\ sessHeld[s].observer + r.toObserver <= MaxHeld
    /\ sessHeld[s].manager + r.toManager <= MaxHeld
    /\ sessRef' = [sessRef EXCEPT ![s] = @ + 1 + r.upRef - r.released]
    /\ sessHeld' = [sessHeld EXCEPT ![s].observer = @ + r.toObserver,
                                    ![s].manager = @ + r.toManager]
    /\ dispLast' = [op |-> "newSession", s |-> s,
                    observer |-> sessionLifecycleCallbacks_,
                    manager |-> sessionManager, before |-> sessRef[s],
                    toObserver |-> r.toObserver, toManager |-> r.toManager,
                    released |-> r.released, fatal |-> FALSE, order |-> r.order]
    /\ UNCHANGED <<sessionLifecycleCallbacks_, ticketHandler_, ticketCbRegistered>>
    /\ UNCHANGED <<credVars, lifeVars, alpnVars, verVars, sniVars, restVars>>

\* removeSessionCallback: the observer, if any, is told; nothing is freed.
removeSessionCallback(cb) == 0
RemoveSessionCallback ==
  \E s \in Sessions :
    /\ sessHeld[s].lib > 0
    /\ ~dispLast.fatal
    /\ sessRef' = [sessRef EXCEPT ![s] = @ - removeSessionCallback(sessionLifecycleCallbacks_)]
    /\ dispLast' = [op |-> "removeSession", s |-> s,
                    observer |-> sessionLifecycleCallbacks_, manager |-> FALSE,
                    before |-> sessRef[s], toObserver |-> 0, toManager |-> 0,
                    released |-> 0, fatal |-> FALSE, order |-> <<>>]
    /\ UNCHANGED <<sessionLifecycleCallbacks_, ticketHandler_, ticketCbRegistered,
                   sessHeld>>
    /\ UNCHANGED <<credVars, lifeVars, alpnVars, verVars, sniVars, restVars>>

\* A holder (the library after the remove notification, the observer, the
\* session manager) frees one of its references.
HolderFree ==
  \E s \in Sessions, who \in {"lib", "observer", "manager"} :
    /\ sessHeld[s][who] > 0
    /\ ~dispLast.fatal
    /\ sessRef' = [sessRef EXCEPT ![s] = @ - 1]
    /\ sessHeld' = [sessHeld EXCEPT ![s][who] = @ - 1]
    /\ dispLast' = [NoDispCall EXCEPT !.op = "free", !.s = s, !.before = sessRef[s]]
    /\ UNCHANGED <<sessionLifecycleCallbacks_, ticketHandler_, ticketCbRegistered>>
    /\ UNCHANGED <<credVars, lifeVars, alpnVars, verVars, sniVars, restVars>>

NextDisp ==
  \/ SetSessionLifecycleCallbacks
  \/ SetTicketHandler
  \/ DispatchTicketCrypto
  \/ MintSession
  \/ NewSessionCallback
  \/ RemoveSessionCallback
  \/ HolderFree

(***************************************************************************)
(* PROTOCOL ADVERTISEMENT                                                  *)
(***************************************************************************)
\* The longest list of groups one call is given.
MaxGroups == 2
\* A protocol name of this length or more is refused.
kProtoLengthLimit == 256

\* Protocol names are byte strings.
NameA == <<97>>
NameBC == <<98, 99>>
NameEmpty == <<>>
NameBig == Rep(120, kProtoLengthLimit)
NameD == <<100>>
NameLong == Rep(200, kProtoLengthLimit - 1)
NameLists == {<<>>, <<NameA, NameBC>>, <<NameEmpty>>, <<NameA, NameBig>>,
              <<NameBig>>, <<NameLong, NameEmpty, NameA>>}
Weights == {-1, 0, 1}
\* The groups a call is given: one name list under every weight, and with
\* weight 1 a second list, a list without names and a list with a name that
\* is too long.
NextProtocolsItems ==
  {[weight |-> w, protocols |-> <<NameA, NameBC>>] : w \in Weights}
  \cup {[weight |-> 1, protocols |-> p] :
          p \in {<<NameD>>, <<>>, <<NameA, NameBig>>}}
ItemLists == UNION {[1..n -> NextProtocolsItems] : n \in 0..MaxGroups}

\* The ALPN part of the context as one value.
Alpn == [list |-> advertisedNextProtocols_,
         weights |-> advertisedNextProtocolWeights_,
         dist |-> nextProtocolDistribution_,
         cb |-> alpnSelectCb,
         protos |-> alpnProtos,
         heap |-> heap]

\* A loop that deletes the first buffer only.
FreeFirstOnly(hp, list, k) ==
  IF list = <<>> THEN hp
  ELSE [i \in DOMAIN hp \ {list[1].protocols} |-> hp[i]]

RECURSIVE FreeAll(_, _, _)
\* delete[] of every buffer of the list, from the k-th on.
FreeAll(hp, list, k) ==
  IF k > Len(list) THEN hp
  ELSE FreeAll([i \in DOMAIN hp \ {list[k].protocols} |-> hp[i]], list, k + 1)

\* deleteNextProtocolsStrings that forgets the weights.
DeleteKeepingWeights(a) ==
  [a EXCEPT !.heap = FreeAll(a.heap, a.list, 1), !.list = <<>>]
deleteNextProtocolsStrings(a) ==
  [a EXCEPT !.heap = FreeAll(a.heap, a.list, 1), !.list = <<>>, !.weights = <<>>]

\* An unsetNextProtocols that leaves the published offer.
UnsetKeepingOffer(a) == [deleteNextProtocolsStrings(a) EXCEPT !.cb = FALSE]
\* unsetNextProtocols: also unregisters the negotiation callback and clears
\* the published offer (SSL_CTX_set_alpn_protos(ctx, nullptr, 0)).
unsetNextProtocols(a) ==
  [deleteNextProtocolsStrings(a) EXCEPT !.cb = FALSE, !.protos = <<>>]

RECURSIVE GroupLength(_, _, _)
\* The first loop over item.protocols: the buffer length, or -1 at the first
\* name of kProtoLengthLimit bytes or more.
GroupLength(protocols, k, len) ==
  IF k > Len(protocols) THEN len
  ELSE IF Len(protocols[k]) >= kProtoLengthLimit THEN -1
  ELSE GroupLength(protocols, k + 1, len + 1 + Len(protocols[k]))

RECURSIVE Encode(_, _)
\* The second loop: one uint8_t length byte, then that many bytes of the name.
Encode(protocols, k) ==
  IF k > Len(protocols) THEN <<>>
  ELSE <<Len(protocols[k]) % 256>>
       \o SubSeq(protocols[k], 1, Len(protocols[k]) % 256)
       \o Encode(protocols, k + 1)

\* new unsigned char[]: an address not in use.
NewBuffer(hp) ==
  CHOOSE i \in 1..(Cardinality(DOMAIN hp) + 1) :
    i \notin DOMAIN hp /\ \A j \in 1..(i - 1) : j \in DOMAIN hp

\* A group pushed in front of the groups already kept.
PushGroupInFront(a, item, length, buf) ==
  [a EXCEPT
     !.heap = [i \in DOMAIN a.heap \cup {buf} |->
                 IF i = buf THEN Encode(item.protocols, 1) ELSE a.heap[i]],
     !.list = <<[protocols |-> buf, length |-> length]>> \o @,
     !.weights = <<item.weight>> \o @]

\* One group kept: its buffer allocated at buf and filled, the group and its
\* weight pushed.
PushGroup(a, item, length, buf) ==
  [a EXCEPT
     !.heap = [i \in DOMAIN a.heap \cup {buf} |->
                 IF i = buf THEN Encode(item.protocols, 1) ELSE a.heap[i]],
     !.list = Append(@, [protocols |-> buf, length |-> length]),
     !.weights = Append(@, item.weight)]

RECURSIVE ItemLoop(_, _, _, _)
RECURSIVE ItemBody(_, _, _, _, _)
\* The loop over items of setRandomizedAdvertisedNextProtocols.
ItemLoop(a, items, k, total_weight) ==
  IF k > Len(items) THEN [a |-> a, total |-> total_weight, aborted |-> FALSE]
  ELSE IF items[k].protocols = <<>> THEN ItemLoop(a, items, k + 1, total_weight)
  ELSE ItemBody(a, items, k, total_weight, GroupLength(items[k].protocols, 1, 0))
\* The body of the loop for a group with names, its buffer length computed.
ItemBody(a, items, k, total_weight, length) ==
  IF length < 0
  THEN [a |-> deleteNextProtocolsStrings(a), total |-> total_weight,
        aborted |-> TRUE]
  ELSE ItemLoop(PushGroup(a, items[k], length, NewBuffer(a.heap)),
                items, k + 1, total_weight + items[k].weight)

\* The check on the total weight: the call goes on unless it is refused.
RefusesTotal(total_weight) == total_weight = 0

\* SSL_CTX_set_alpn_protos copies the buffer; a failure leaves the offer as it was.
SSL_CTX_set_alpn_protos(a, publishOk) ==
  IF publishOk THEN [a EXCEPT !.protos = a.heap[a.list[1].protocols]] ELSE a

\* The rest of the call, after the loop over items has given r.
AfterItemLoop(r, publishOk) ==
  IF r.aborted THEN [a |-> r.a, ret |-> FALSE]
  ELSE IF RefusesTotal(r.total)
       THEN [a |-> deleteNextProtocolsStrings(r.a), ret |-> FALSE]
       ELSE [a |-> SSL_CTX_set_alpn_protos(
                     [r.a EXCEPT !.dist = r.a.weights, !.cb = TRUE], publishOk),
             ret |-> publishOk]

\* The call up to the end of the loop over items.
ItemsPhase(a0, items) ==
  IF items = <<>>
  THEN [a |-> unsetNextProtocols(a0), total |-> 0, aborted |-> TRUE]
  ELSE ItemLoop(unsetNextProtocols(a0), items, 1, 0)

setRandomizedAdvertisedNextProtocols(a0, items, publishOk) ==
  AfterItemLoop(ItemsPhase(a0, items), publishOk)

AsOneGroup(protocols) == <<[weight |-> 1, protocols |-> protocols]>>

setAdvertisedNextProtocols(a0, protocols, publishOk) ==
  setRandomizedAdvertisedNextProtocols(a0, AsOneGroup(protocols), publishOk)

\* A getAdvertisedNextProtocols without the loop.
AdvertisedRaw(a) ==
  IF a.list = <<>> THEN <<>>
  ELSE SubSeq(a.heap[a.list[1].protocols], 2, a.list[1].length)

RECURSIVE CommaLoop(_, _)
\* The loop of getAdvertisedNextProtocols: every length byte after the first
\* becomes a comma.  i is the 0-based index into alpns.
CommaLoop(alpns, i) ==
  IF i >= Len(alpns) THEN alpns
  ELSE CommaLoop([alpns EXCEPT ![i + 1] = 44], i + alpns[i + 1] + 1)

getAdvertisedNextProtocols(a) ==
  IF a.list = <<>> THEN <<>>
  ELSE LET bytes == a.heap[a.list[1].protocols]
       IN CommaLoop(SubSeq(bytes, 2, a.list[1].length), bytes[1])

\* ---- negotiation
RECURSIVE Sum(_)
Sum(w) == IF w = <<>> THEN 0 ELSE Head(w) + Sum(Tail(w))

\* The indices std::discrete_distribution can return.  Built from weights
\* that are all >= 0 with a positive sum, index i comes with probability
\* w[i] / sum, so only indices of positive weight; a default-constructed one
\* returns 0; a negative weight breaks the constructor's precondition and
\* the index drawn is then any index.
Draws(dist) ==
  IF dist = <<>> THEN {0}
  ELSE IF (\A i \in 1..Len(dist) : dist[i] >= 0) /\ Sum(dist) > 0
       THEN {i \in 0..(Len(dist) - 1) : dist[i + 1] > 0}
       ELSE 0..(Len(dist) - 1)

\* The protocol name at 0-based offset i of a wire-format list.
ProtoAt(buf, i) == SubSeq(buf, i + 2, i + 1 + buf[i + 1])

RECURSIVE ClientScan(_, _, _, _)
\* SSL_select_next_proto, inner loop: some entry of client equals the entry
\* of server at offset i.
ClientScan(server, i, client, j) ==
  IF j >= Len(client) THEN FALSE
  ELSE IF server[i + 1] = client[j + 1] /\ ProtoAt(server, i) = ProtoAt(client, j)
       THEN TRUE
       ELSE ClientScan(server, i, client, j + client[j + 1] + 1)

RECURSIVE SSL_select_next_proto(_, _, _)
\* SSL_select_next_proto, outer loop over the first ("server") list; with no
\* overlap the result is the first entry of the second list.
SSL_select_next_proto(server, i, client) ==
  IF i >= Len(server)
  THEN [status |-> "OPENSSL_NPN_NO_OVERLAP", out |-> ProtoAt(client, 0)]
  ELSE IF ClientScan(server, i, client, 0)
       THEN [status |-> "OPENSSL_NPN_NEGOTIATED", out |-> ProtoAt(server, i)]
       ELSE SSL_select_next_proto(server, i + server[i + 1] + 1, client)

\* A negotiation callback that never looks at alpnAllowMismatch_.
SelectAlwaysNoAck(a, in, i, allowMismatch) ==
  IF a.list = <<>>
  THEN [ret |-> "SSL_TLSEXT_ERR_OK", out |-> <<>>, pick |-> -1]
  ELSE IF i >= Len(a.list)
  THEN [ret |-> "undefined", out |-> <<>>, pick |-> i]
  ELSE LET r == SSL_select_next_proto(a.heap[a.list[i + 1].protocols], 0, in)
       IN [ret |-> IF r.status # "OPENSSL_NPN_NEGOTIATED"
                   THEN "SSL_TLSEXT_ERR_NOACK" ELSE "SSL_TLSEXT_ERR_OK",
           out |-> r.out, pick |-> i]

\* alpnSelectCallback with the peer's offer in and the index i drawn by
\* pickNextProtocols; indexing the list past its end is undefined.
alpnSelectCallback(a, in, i, allowMismatch) ==
  IF a.list = <<>>
  THEN [ret |-> "SSL_TLSEXT_ERR_OK", out |-> <<>>, pick |-> -1]
  ELSE IF i >= Len(a.list)
  THEN [ret |-> "undefined", out |-> <<>>, pick |-> i]
  ELSE LET item == a.list[i + 1]
           r == SSL_select_next_proto(a.heap[item.protocols], 0, in)
       IN IF r.status # "OPENSSL_NPN_NEGOTIATED"
          THEN [ret |-> IF ~allowMismatch THEN "SSL_TLSEXT_ERR_ALERT_FATAL"
                        ELSE "SSL_TLSEXT_ERR_NOACK",
                out |-> r.out, pick |-> i]
          ELSE [ret |-> "SSL_TLSEXT_ERR_OK", out |-> r.out, pick |-> i]

\* What the peer may offer (wire format, never empty).
PeerOffers == {Encode(<<NameBC, NameA>>, 1), Encode(<<NameA>>, 1),
               Encode(<<NameD>>, 1)}

\* ---- what a call was given, for the claims
HasOversizedName(items) ==
  \E k \in 1..Len(items) : \E n \in 1..Len(items[k].protocols) :
    Len(items[k].protocols[n]) >= kProtoLengthLimit
RECURSIVE KeptTotal(_)
\* The total weight of the groups with a non-empty name list.
KeptTotal(items) ==
  IF items = <<>> THEN 0
  ELSE (IF Head(items).protocols = <<>> THEN 0 ELSE Head(items).weight)
       + KeptTotal(Tail(items))

\* The names of the first group of items that has names.
FirstNamed(items) ==
  IF \E k \in 1..Len(items) : items[k].protocols # <<>>
  THEN items[CHOOSE k \in 1..Len(items) :
               /\ items[k].protocols # <<>>
               /\ \A j \in 1..(k - 1) : items[j].protocols = <<>>].protocols
  ELSE <<>>

NoAlpnCall == [op |-> "none", ret |-> "none", oversized |-> FALSE, total |-> 0,
               in |-> <<>>, first |-> <<>>,
               publishOk |-> FALSE, pick |-> -1, out |-> <<>>]

InitAlpn ==
  /\ advertisedNextProtocols_ = <<>>
  /\ advertisedNextProtocolWeights_ = <<>>
  /\ nextProtocolDistribution_ = <<>>
  /\ alpnSelectCb = FALSE
  /\ alpnProtos = <<>>
  /\ heap = <<>>
  /\ alpnAllowMismatch_ = TRUE
  /\ alpnDestroyed = FALSE
  /\ alpnLast = NoAlpnCall

AlpnBecomes(a) ==
  /\ advertisedNextProtocols_' = a.list
  /\ advertisedNextProtocolWeights_' = a.weights
  /\ nextProtocolDistribution_' = a.dist
  /\ alpnSelectCb' = a.cb
  /\ alpnProtos' = a.protos
  /\ heap' = a.heap

BoolStr(b) == IF b THEN "true" ELSE "false"

\* A call that gave r = [a, ret] on items.
AlpnSetCore(op, r, items, publishOk) ==
  /\ ~alpnDestroyed
  /\ AlpnBecomes(r.a)
  /\ alpnLast' = [NoAlpnCall EXCEPT !.op = op, !.ret = BoolStr(r.ret),
                    !.oversized = HasOversizedName(items),
                    !.total = KeptTotal(items), !.publishOk = publishOk,
                    !.first = FirstNamed(items)]
  /\ UNCHANGED <<alpnAllowMismatch_, alpnDestroyed>>

AlpnSetCall(op, r, items, publishOk) ==
  /\ AlpnSetCore(op, r, items, publishOk)
  /\ UNCHANGED <<credVars, lifeVars, dispVars, verVars, sniVars, restVars>>

\* The native publish call, made after the loop over items has given r,
\* succeeds or fails; a call that returns before it does not make it.
PublishEitherWay(op, phase, items) ==
  \E r \in {phase} :
    \E publishOk \in IF r.aborted \/ RefusesTotal(r.total) THEN {FALSE} ELSE BOOLEAN :
      \E after \in {AfterItemLoop(r, publishOk)} :
        AlpnSetCall(op, after, items, publishOk)

SetRandomizedAdvertisedNextProtocols ==
  \E items \in ItemLists :
    PublishEitherWay("setRandomized", ItemsPhase(Alpn, items), items)

SetAdvertisedNextProtocols ==
  \E protocols \in NameLists :
    PublishEitherWay("set", ItemsPhase(Alpn, AsOneGroup(protocols)),
                     AsOneGroup(protocols))

UnsetNextProtocols ==
  /\ ~alpnDestroyed
  /\ AlpnBecomes(unsetNextProtocols(Alpn))
  /\ alpnLast' = [NoAlpnCall EXCEPT !.op = "unset"]
  /\ UNCHANGED <<alpnAllowMismatch_, alpnDestroyed>>
  /\ UNCHANGED <<credVars, lifeVars, dispVars, verVars, sniVars, restVars>>

DeleteNextProtocolsStrings ==
  /\ ~alpnDestroyed
  /\ AlpnBecomes(deleteNextProtocolsStrings(Alpn))
  /\ alpnLast' = [NoAlpnCall EXCEPT !.op = "delete"]
  /\ UNCHANGED <<alpnAllowMismatch_, alpnDestroyed>>
  /\ UNCHANGED <<credVars, lifeVars, dispVars, verVars, sniVars, restVars>>

SetAlpnAllowMismatch ==
  \E allowMismatch \in BOOLEAN :
    /\ ~alpnDestroyed
    /\ alpnAllowMismatch_' = allowMismatch
    /\ alpnLast' = [NoAlpnCall EXCEPT !.op = "setAlpnAllowMismatch"]
    /\ UNCHANGED <<advertisedNextProtocols_, advertisedNextProtocolWeights_,
                   nextProtocolDistribution_, alpnSelectCb, alpnProtos, heap,
                   alpnDestroyed>>
    /\ UNCHANGED <<credVars, lifeVars, dispVars, verVars, sniVars, restVars>>

\* The library dispatches the negotiation callback, which it does only while
\* one is registered; pickNextProtocols draws the group.
AlpnSelected(r, in) ==
  /\ alpnLast' = [NoAlpnCall EXCEPT !.op = "select", !.ret = r.ret,
                    !.pick = r.pick, !.out = r.out, !.in = in]
  /\ UNCHANGED <<advertisedNextProtocols_, advertisedNextProtocolWeights_,
                 nextProtocolDistribution_, alpnSelectCb, alpnProtos, heap,
                 alpnAllowMismatch_, alpnDestroyed>>
  /\ UNCHANGED <<credVars, lifeVars, dispVars, verVars, sniVars, restVars>>

AlpnSelectCallback ==
  \E in \in PeerOffers, i \in Draws(nextProtocolDistribution_) :
    /\ ~alpnDestroyed
    /\ alpnSelectCb
    /\ AlpnSelected(alpnSelectCallback(Alpn, in, i, alpnAllowMismatch_), in)

\* ~SSLContext: the buffers are deleted.
AlpnDestroy ==
  /\ ~alpnDestroyed
  /\ AlpnBecomes(deleteNextProtocolsStrings(Alpn))
  /\ alpnDestroyed' = TRUE
  /\ alpnLast' = [NoAlpnCall EXCEPT !.op = "destroy"]
  /\ UNCHANGED alpnAllowMismatch_
  /\ UNCHANGED <<credVars, lifeVars, dispVars, verVars, sniVars, restVars>>

\* The groups a context in use is given: two, each with weight.
SharedItems == <<[weight |-> 1, protocols |-> <<NameA, NameBC>>],
                 [weight |-> 1, protocols |-> <<NameD>>]>>

\* setRandomizedAdvertisedNextProtocols, the items given kept for comparison
\* with what the context stores; called on a new context, after a call
\* that was given one group and after one given two groups with names.
SetRandomizedGiven ==
  /\ Len(alpnGiven) <= 1 \/ alpnGiven = SharedItems
  /\ \E items \in ItemLists :
    \E r \in {ItemsPhase(Alpn, items)} :
      \E publishOk \in IF r.aborted \/ RefusesTotal(r.total) THEN {FALSE} ELSE BOOLEAN :
        \E after \in {AfterItemLoop(r, publishOk)} :
          /\ AlpnSetCore("setRandomized", after, items, publishOk)
          /\ alpnGiven' = items
          /\ UNCHANGED <<credVars, lifeVars, dispVars, verVars, sniVars, slotVars,
                         matchVars, concVars, protoVars, errVars>>

NextAlpn ==
  \/ SetRandomizedAdvertisedNextProtocols
  \/ SetAdvertisedNextProtocols
  \/ UnsetNextProtocols
  \/ DeleteNextProtocolsStrings
  \/ SetAlpnAllowMismatch
  \/ AlpnSelectCallback
  \/ AlpnDestroy

(***************************************************************************)
(* PEER VERIFICATION POLICY                                                *)
(***************************************************************************)
SSL_VERIFY_NONE == 0
SSL_VERIFY_PEER == 1
SSL_VERIFY_FAIL_IF_NO_PEER_CERT == 2
SSL_VERIFY_CLIENT_ONCE == 4

SSLVerifyPeerEnum == {"USE_CTX", "VERIFY", "VERIFY_REQ_CLIENT_CERT", "NO_VERIFY"}
VerifyClientCertificate == {"ALWAYS", "IF_PRESENTED", "DO_NOT_REQUEST"}
VerifyServerCertificate == {"IF_PRESENTED", "IGNORE_VERIFY_RESULT"}
PeerNames == {"", "host"}

\* a wrong combination: the modes added
ModesAdded(a, b) == a + b

\* the | operator of C++ on non-negative int values
RECURSIVE BitOr(_, _)
BitOr(a, b) ==
  IF a = 0 THEN b
  ELSE IF b = 0 THEN a
  ELSE (IF a % 2 = 1 \/ b % 2 = 1 THEN 1 ELSE 0) + 2 * BitOr(a \div 2, b \div 2)

getVerificationModeClient(verifyClient) ==
  CASE verifyClient = "ALWAYS" ->
         BitOr(SSL_VERIFY_PEER, SSL_VERIFY_FAIL_IF_NO_PEER_CERT)
    [] verifyClient = "IF_PRESENTED" -> SSL_VERIFY_PEER
    [] verifyClient = "DO_NOT_REQUEST" -> SSL_VERIFY_NONE

getVerificationModeServer(verifyServer) ==
  CASE verifyServer = "IF_PRESENTED" -> SSL_VERIFY_PEER
    [] verifyServer = "IGNORE_VERIFY_RESULT" -> SSL_VERIFY_NONE

\* [res, mode]: CHECK(verifyPeer != USE_CTX) ends the process
getVerificationModePeer(verifyPeer) ==
  IF verifyPeer = "USE_CTX" THEN [res |-> "abort", mode |-> SSL_VERIFY_NONE]
  ELSE [res |-> "ok",
        mode |-> CASE verifyPeer = "VERIFY" -> SSL_VERIFY_PEER
                   [] verifyPeer = "VERIFY_REQ_CLIENT_CERT" ->
                        BitOr(SSL_VERIFY_PEER, SSL_VERIFY_FAIL_IF_NO_PEER_CERT)
                   [] verifyPeer = "NO_VERIFY" -> SSL_VERIFY_NONE]

\* the member overload, on the three stored policies
getVerificationMode ==
  LET p == getVerificationModePeer(verifyPeer_)
  IN  [res  |-> p.res,
       mode |-> BitOr(BitOr(getVerificationModeClient(verifyClient_),
                            getVerificationModeServer(verifyServer_)), p.mode)]

needsPeerVerification == getVerificationMode.mode # SSL_VERIFY_NONE

NoVerCall == [op |-> "none", res |-> "ok", arg |-> "", mode |-> SSL_VERIFY_NONE,
              cert |-> FALSE, name |-> FALSE, peer |-> ""]

InitVer ==
  /\ verBuilt = "none"
  /\ verifyPeer_ = "NO_VERIFY"
  /\ verifyClient_ = "DO_NOT_REQUEST"
  /\ verifyServer_ = "IGNORE_VERIFY_RESULT"
  /\ checkPeerName_ = FALSE
  /\ peerFixedName_ = ""
  /\ verifyMode = SSL_VERIFY_NONE
  /\ verLast = NoVerCall

VerLive == verBuilt # "none" /\ verLast.res # "abort"

\* SSLContext(SSLVersion): a new SSL_CTX verifies nothing; line 152 clears
\* checkPeerName_
VerConstructFresh ==
  /\ verBuilt = "none"
  /\ verBuilt' = "fresh"
  /\ checkPeerName_' = FALSE
  /\ verifyMode' = SSL_VERIFY_NONE
  /\ verLast' = [NoVerCall EXCEPT !.op = "construct"]
  /\ UNCHANGED <<verifyPeer_, verifyClient_, verifyServer_, peerFixedName_>>
  /\ UNCHANGED <<credVars, lifeVars, dispVars, alpnVars, sniVars, restVars>>

\* SSLContext(SSL_CTX*): the handle keeps the verify mode its owner gave it, and
\* checkPeerName_, which has no initializer, is never assigned: its value is
\* indeterminate
VerConstructAdopt ==
  \E m \in {SSL_VERIFY_NONE, SSL_VERIFY_PEER}, indeterminate \in BOOLEAN :
    /\ verBuilt = "none"
    /\ verBuilt' = "adopted"
    /\ checkPeerName_' = indeterminate
    /\ verifyMode' = m
    /\ verLast' = [NoVerCall EXCEPT !.op = "construct"]
    /\ UNCHANGED <<verifyPeer_, verifyClient_, verifyServer_, peerFixedName_>>
    /\ UNCHANGED <<credVars, lifeVars, dispVars, alpnVars, sniVars, restVars>>

SetVerificationOptionPeer ==
  \E verifyPeer \in SSLVerifyPeerEnum :
    /\ VerLive
    /\ IF verifyPeer = "USE_CTX"
       THEN /\ verLast' = [NoVerCall EXCEPT !.op = "setVerificationOption",
                             !.arg = verifyPeer, !.res = "abort"]
            /\ UNCHANGED verifyPeer_
       ELSE /\ verifyPeer_' = verifyPeer
            /\ verLast' = [NoVerCall EXCEPT !.op = "setVerificationOption",
                             !.arg = verifyPeer]
    /\ UNCHANGED <<verBuilt, verifyClient_, verifyServer_, checkPeerName_,
                   peerFixedName_, verifyMode>>
    /\ UNCHANGED <<credVars, lifeVars, dispVars, alpnVars, sniVars, restVars>>

\* A setVerificationOption that also applies the policy to the handle.
SetClientAndApply ==
  \E verifyClient \in VerifyClientCertificate :
    /\ VerLive
    /\ verifyClient_' = verifyClient
    /\ verifyMode' = getVerificationModeClient(verifyClient)
    /\ verLast' = [NoVerCall EXCEPT !.op = "setVerificationOption",
                     !.arg = verifyClient]
    /\ UNCHANGED <<verBuilt, verifyPeer_, verifyServer_, checkPeerName_,
                   peerFixedName_>>
    /\ UNCHANGED <<credVars, lifeVars, dispVars, alpnVars, sniVars, restVars>>

SetVerificationOptionClient ==
  \E verifyClient \in VerifyClientCertificate :
    /\ VerLive
    /\ verifyClient_' = verifyClient
    /\ verLast' = [NoVerCall EXCEPT !.op = "setVerificationOption",
                     !.arg = verifyClient]
    /\ UNCHANGED <<verBuilt, verifyPeer_, verifyServer_, checkPeerName_,
                   peerFixedName_, verifyMode>>
    /\ UNCHANGED <<credVars, lifeVars, dispVars, alpnVars, sniVars, restVars>>

SetVerificationOptionServer ==
  \E verifyServer \in VerifyServerCertificate :
    /\ VerLive
    /\ verifyServer_' = verifyServer
    /\ verLast' = [NoVerCall EXCEPT !.op = "setVerificationOption",
                     !.arg = verifyServer]
    /\ UNCHANGED <<verBuilt, verifyPeer_, verifyClient_, checkPeerName_,
                   peerFixedName_, verifyMode>>
    /\ UNCHANGED <<credVars, lifeVars, dispVars, alpnVars, sniVars, restVars>>

\* the static overload on the legacy enum, called with any enumerator
GetVerificationModePeer ==
  \E verifyPeer \in SSLVerifyPeerEnum :
    LET r == getVerificationModePeer(verifyPeer)
    IN  /\ VerLive
        /\ verLast' = [NoVerCall EXCEPT !.op = "getVerificationMode",
                         !.arg = verifyPeer, !.res = r.res, !.mode = r.mode]
        /\ UNCHANGED <<verBuilt, verifyPeer_, verifyClient_, verifyServer_,
                       checkPeerName_, peerFixedName_, verifyMode>>
        /\ UNCHANGED <<credVars, lifeVars, dispVars, alpnVars, sniVars, restVars>>

Authenticate ==
  \E checkPeerCert \in BOOLEAN, checkPeerName \in BOOLEAN, peerName \in PeerNames :
    /\ VerLive
    /\ IF checkPeerCert
       THEN /\ verifyMode' = BitOr(BitOr(SSL_VERIFY_PEER,
                                         SSL_VERIFY_FAIL_IF_NO_PEER_CERT),
                                   SSL_VERIFY_CLIENT_ONCE)
            /\ checkPeerName_' = checkPeerName
            /\ peerFixedName_' = peerName
       ELSE /\ verifyMode' = SSL_VERIFY_NONE
            /\ checkPeerName_' = FALSE
            /\ peerFixedName_' = ""
    /\ verLast' = [NoVerCall EXCEPT !.op = "authenticate", !.cert = checkPeerCert,
                     !.name = checkPeerName, !.peer = peerName]
    /\ UNCHANGED <<verBuilt, verifyPeer_, verifyClient_, verifyServer_>>
    /\ UNCHANGED <<credVars, lifeVars, dispVars, alpnVars, sniVars, restVars>>

NextVer ==
  \/ VerConstructFresh
  \/ VerConstructAdopt
  \/ SetVerificationOptionPeer
  \/ SetVerificationOptionClient
  \/ SetVerificationOptionServer
  \/ GetVerificationModePeer
  \/ Authenticate

(***************************************************************************)
(* SERVER-NAME DISPATCH                                                    *)
(***************************************************************************)
\* Client-hello callbacks one context can have registered.
MaxCallbacks == 2

\* A client-hello callback: who it is, and whether calling it throws (an
\* empty std::function does, and so may any callable).
ClientHelloCallbacks == [id : 1..MaxCallbacks, throws : BOOLEAN]
ServerNameCallbackResult ==
  {"SERVER_NAME_FOUND", "SERVER_NAME_NOT_FOUND", "SERVER_NAME_NOT_FOUND_ALERT_FATAL"}

InitSni ==
  /\ clientHelloCbs_ = <<>>
  /\ serverNameCb_ = FALSE
  /\ sniLast = [op |-> "none", context |-> FALSE, ret |-> "none", al |-> "unwritten",
                log |-> <<>>, result |-> "none"]

\* The ids of cbs[1..n], in order.
Invoked(cbs, n) == [i \in 1..n |-> cbs[i].id]

\* baseServerNameOpenSSLCallback(ssl, al, data): context is data != nullptr,
\* result what the server-name callback returns when it is called.  log lists
\* the callbacks invoked (0: the server-name callback).  Nothing in the loop
\* catches: the first callback that throws ends the call with its exception.
baseServerNameOpenSSLCallback(context, cbs, hasServerNameCb, result) ==
  LET out(ret, al, log, res) ==
        [op |-> "dispatch", context |-> context, ret |-> ret, al |-> al,
         log |-> log, result |-> res]
      thrower == IF \E i \in 1..Len(cbs) : cbs[i].throws
                 THEN CHOOSE i \in 1..Len(cbs) :
                        cbs[i].throws /\ \A j \in 1..(i - 1) : ~cbs[j].throws
                 ELSE 0
      all == Invoked(cbs, Len(cbs))
  IN  IF ~context THEN out("SSL_TLSEXT_ERR_NOACK", "unwritten", <<>>, "none")
      ELSE IF thrower # 0
           THEN out("exception", "unwritten", Invoked(cbs, thrower), "none")
      ELSE IF ~hasServerNameCb
           THEN out("SSL_TLSEXT_ERR_NOACK", "unwritten", all, "none")
      ELSE CASE result = "SERVER_NAME_FOUND" ->
                  out("SSL_TLSEXT_ERR_OK", "unwritten", all \o <<0>>, result)
             [] result = "SERVER_NAME_NOT_FOUND" ->
                  out("SSL_TLSEXT_ERR_NOACK", "unwritten", all \o <<0>>, result)
             [] result = "SERVER_NAME_NOT_FOUND_ALERT_FATAL" ->
                  out("SSL_TLSEXT_ERR_ALERT_FATAL", "TLS1_AD_UNRECOGNIZED_NAME",
                      all \o <<0>>, result)

SetServerNameCallback ==
  \E callable \in BOOLEAN :
    /\ serverNameCb_' = callable
    /\ sniLast' = [sniLast EXCEPT !.op = "setServerNameCallback"]
    /\ UNCHANGED clientHelloCbs_
    /\ UNCHANGED <<credVars, lifeVars, dispVars, alpnVars, verVars, restVars>>

AddClientHelloCallback ==
  \E cb \in ClientHelloCallbacks :
    /\ Len(clientHelloCbs_) < MaxCallbacks
    /\ clientHelloCbs_' = Append(clientHelloCbs_, cb)
    /\ sniLast' = [sniLast EXCEPT !.op = "addClientHelloCallback"]
    /\ UNCHANGED serverNameCb_
    /\ UNCHANGED <<credVars, lifeVars, dispVars, alpnVars, verVars, restVars>>

BaseServerNameOpenSSLCallback ==
  \E context \in BOOLEAN, result \in ServerNameCallbackResult :
    /\ sniLast' = baseServerNameOpenSSLCallback(context, clientHelloCbs_,
                                                serverNameCb_, result)
    /\ UNCHANGED <<clientHelloCbs_, serverNameCb_>>
    /\ UNCHANGED <<credVars, lifeVars, dispVars, alpnVars, verVars, restVars>>

NextSni ==
  \/ SetServerNameCallback
  \/ AddClientHelloCallback
  \/ BaseServerNameOpenSSLCallback

(***************************************************************************)
(* COLLABORATOR SLOTS: password collector, accept runner, client CA list   *)
(***************************************************************************)
\* The largest buffer the library passes to the password callback, and the
\* longest password a collector produces.
MaxSize == 2
MaxPassword == 3

Collectors == 0..1          \* 0: nullptr
Runners == 0..2             \* 0: nullptr, 1: SSLAcceptRunner, 2: a subclass
CAFiles == 0..2             \* 0: a file SSL_load_client_CA_file cannot load
Bytes == 1..2
Passwords == UNION {[1..n -> Bytes] : n \in 0..MaxPassword}

NoSlotCall == [op |-> "none", ret |-> 0, password |-> <<>>, asked |-> 0, size |-> 0,
               userPassword |-> <<>>, context |-> FALSE, log |-> <<>>, file |-> 0]

InitSlots ==
  /\ slotBuilt = "none"
  /\ collector_ = 0
  /\ passwdCb = FALSE
  /\ sslAcceptRunner_ = 0
  /\ clientCAs = 0
  /\ slotLast = NoSlotCall

\* SSLContext(SSLVersion): line 156 makes the default runner.
SlotConstructFresh ==
  /\ slotBuilt = "none"
  /\ slotBuilt' = "fresh"
  /\ sslAcceptRunner_' = 1
  /\ slotLast' = [NoSlotCall EXCEPT !.op = "construct"]
  /\ UNCHANGED <<collector_, passwdCb, clientCAs>>
  /\ UNCHANGED <<credVars, lifeVars, dispVars, alpnVars, verVars, sniVars, matchVars, concVars, wireVars, protoVars, errVars>>

\* SSLContext(SSL_CTX*): sslAcceptRunner_ keeps its default, nullptr.
SlotConstructAdopt ==
  /\ slotBuilt = "none"
  /\ slotBuilt' = "adopted"
  /\ slotLast' = [NoSlotCall EXCEPT !.op = "construct"]
  /\ UNCHANGED <<collector_, passwdCb, sslAcceptRunner_, clientCAs>>
  /\ UNCHANGED <<credVars, lifeVars, dispVars, alpnVars, verVars, sniVars, matchVars, concVars, wireVars, protoVars, errVars>>

\* sslAcceptRunner(runner): a null runner is ignored.
SslAcceptRunner ==
  \E runner \in Runners :
    /\ slotBuilt # "none"
    /\ sslAcceptRunner_' = IF runner = 0 THEN sslAcceptRunner_ ELSE runner
    /\ slotLast' = [NoSlotCall EXCEPT !.op = "sslAcceptRunner"]
    /\ UNCHANGED <<slotBuilt, collector_, passwdCb, clientCAs>>
    /\ UNCHANGED <<credVars, lifeVars, dispVars, alpnVars, verVars, sniVars, matchVars, concVars, wireVars, protoVars, errVars>>

\* SSLAcceptRunner::run: the calls it makes, in order, acceptFunc returning r.
run(r) == <<[fn |-> "acceptFunc", arg |-> 0], [fn |-> "finallyFunc", arg |-> r]>>

\* The connection layer runs an accept through the default runner.
RunAccept ==
  \E r \in {-1, 1} :
    /\ sslAcceptRunner_ = 1
    /\ slotLast' = [NoSlotCall EXCEPT !.op = "run", !.ret = r, !.log = run(r)]
    /\ UNCHANGED <<slotBuilt, collector_, passwdCb, sslAcceptRunner_, clientCAs>>
    /\ UNCHANGED <<credVars, lifeVars, dispVars, alpnVars, verVars, sniVars, matchVars, concVars, wireVars, protoVars, errVars>>

\* passwordCollector(collector): a null collector is ignored.
PasswordCollector ==
  \E collector \in Collectors :
    /\ slotBuilt # "none"
    /\ IF collector = 0
       THEN UNCHANGED <<collector_, passwdCb>>
       ELSE collector_' = collector /\ passwdCb' = TRUE
    /\ slotLast' = [NoSlotCall EXCEPT !.op = "passwordCollector"]
    /\ UNCHANGED <<slotBuilt, sslAcceptRunner_, clientCAs>>
    /\ UNCHANGED <<credVars, lifeVars, dispVars, alpnVars, verVars, sniVars, matchVars, concVars, wireVars, protoVars, errVars>>

Min(a, b) == IF a <= b THEN a ELSE b

\* A callback that copies all the collector gave.
CopyWithoutBound(context, collector, size, userPassword) ==
  IF ~context \/ collector = 0
  THEN [ret |-> 0, password |-> [i \in 1..size |-> 0], asked |-> 0]
  ELSE [ret |-> Len(userPassword),
        password |-> [i \in 1..(IF size >= Len(userPassword) THEN size
                                ELSE Len(userPassword)) |->
                        IF i <= Len(userPassword) THEN userPassword[i] ELSE 0],
        asked |-> 1]

\* passwordCallback(password, size, _, data): context is data != nullptr,
\* collector its collector_, userPassword what getPassword answers.  password
\* is the memory from the buffer's start after the call (0: not written), as
\* far as the buffer or the bytes written reach.
passwordCallback(context, collector, size, userPassword) ==
  IF ~context \/ collector = 0
  THEN [ret |-> 0, password |-> [i \in 1..size |-> 0], asked |-> 0]
  ELSE LET length == Min(Len(userPassword), size)
       IN  [ret |-> length,
            password |-> [i \in 1..size |-> IF i <= length THEN userPassword[i] ELSE 0],
            asked |-> 1]

PasswordCallback ==
  \E context \in BOOLEAN, size \in 0..MaxSize, userPassword \in Passwords :
    LET r == passwordCallback(context, collector_, size, userPassword)
    IN  /\ slotBuilt # "none"
        /\ slotLast' = [NoSlotCall EXCEPT !.op = "passwordCallback", !.ret = r.ret,
                          !.password = r.password, !.asked = r.asked, !.size = size,
                          !.userPassword = userPassword, !.context = context]
        /\ UNCHANGED <<slotBuilt, collector_, passwdCb, sslAcceptRunner_, clientCAs>>
        /\ UNCHANGED <<credVars, lifeVars, dispVars, alpnVars, verVars, sniVars,
                       matchVars, concVars, wireVars, protoVars, errVars>>

\* A loader that installs whatever SSL_load_client_CA_file returned.
InstallUnchecked(list, file) == file

\* loadClientCAList(path): file is what SSL_load_client_CA_file(path) gives;
\* the list the SSL_CTX has afterwards.
loadClientCAList(list, file) == IF file = 0 THEN list ELSE file

LoadClientCAList ==
  \E file \in CAFiles :
    /\ slotBuilt # "none"
    /\ clientCAs' = loadClientCAList(clientCAs, file)
    /\ slotLast' = [NoSlotCall EXCEPT !.op = "loadClientCAList", !.file = file]
    /\ UNCHANGED <<slotBuilt, collector_, passwdCb, sslAcceptRunner_>>
    /\ UNCHANGED <<credVars, lifeVars, dispVars, alpnVars, verVars, sniVars, matchVars, concVars, wireVars, protoVars, errVars>>

NextSlots ==
  \/ SlotConstructFresh
  \/ SlotConstructAdopt
  \/ SslAcceptRunner
  \/ RunAccept
  \/ PasswordCollector
  \/ PasswordCallback
  \/ LoadClientCAList

(***************************************************************************)
(* NAME MATCHING                                                           *)
(***************************************************************************)
InitMatch == matchLast = [op |-> "none"]

\* The longest host and the longest pattern drawn from the alphabets.
MaxLen == 3

\* Characters are one-character strings; a C string is the sequence of its
\* characters before the terminating NUL.
HostChars == {"a", "A", "b", "."}
PatternChars == HostChars \cup {"*"}
StringsOver(chars) == UNION {[1..n -> chars] : n \in 0..MaxLen}
ExampleCom == <<"e", "x", "a", "m", "p", "l", "e", ".", "c", "o", "m">>
ExampleHosts == {<<"f", "o", "o", ".">> \o ExampleCom, ExampleCom,
                 <<"a", ".", "b", ".">> \o ExampleCom}
StarExampleCom == <<"*", ".">> \o ExampleCom

toupper(c) ==
  LET lower == <<"a", "b", "c", "e", "f", "l", "m", "o", "p", "x">>
      upper == <<"A", "B", "C", "E", "F", "L", "M", "O", "P", "X">>
  IN  IF \E k \in DOMAIN lower : lower[k] = c
      THEN upper[CHOOSE k \in DOMAIN lower : lower[k] = c]
      ELSE c

\* A wildcard that runs to the end of the host.
SkipToEnd(host, j) == Len(host)

\* while (host[j] != '.' && host[j] != '\0') j++;  j is 0-based.
SkipLabel(host, j) ==
  CHOOSE k \in j..Len(host) :
    /\ k = Len(host) \/ host[k + 1] = "."
    /\ \A m \in j..(k - 1) : host[m + 1] # "."

RECURSIVE MatchLoop(_, _, _, _)
\* The outer loop of matchName from (i, j), both 0-based: where it stops.
MatchLoop(host, pattern, i, j) ==
  IF i < Len(pattern) /\ j < Len(host)
  THEN IF toupper(pattern[i + 1]) = toupper(host[j + 1])
       THEN MatchLoop(host, pattern, i + 1, j + 1)
       ELSE IF pattern[i + 1] = "*"
            THEN MatchLoop(host, pattern, i + 1, SkipLabel(host, j))
            ELSE <<i, j>>
  ELSE <<i, j>>

\* matchName(host, pattern, size) with size the length of pattern.
matchName(host, pattern) ==
  MatchLoop(host, pattern, 0, 0) = <<Len(pattern), Len(host)>>

\* One call, on a host and a pattern over the alphabets or on the documented
\* examples.
MatchName ==
  /\ matchLast.op = "none"
  /\ \E hp \in (StringsOver(HostChars) \X StringsOver(PatternChars))
                \cup (ExampleHosts \X {StarExampleCom}) :
    /\ matchLast' = [op |-> "matchName", host |-> hp[1], pattern |-> hp[2],
                     match |-> matchName(hp[1], hp[2])]
    /\ UNCHANGED <<credVars, lifeVars, dispVars, alpnVars, verVars, sniVars, slotVars,
                   concVars, wireVars, protoVars, errVars>>

(***************************************************************************)
(* CONCURRENT HANDSHAKES: worker threads dispatching on one shared context *)
(***************************************************************************)
Threads == 1..2
\* The states of a thread's random generator.
PrngStates == 0..1
DispatchOps == {"createSSL", "serverName", "alpnSelect", "password",
                "newSession", "removeSession"}
Idle == [op |-> "idle", i |-> -1]

InitConc ==
  /\ pc = [t \in Threads |-> Idle]
  /\ prng = [t \in Threads |-> 0]

AllIdle == \A t \in Threads : pc[t].op = "idle"

\* A draw that takes every thread's number from one generator.
PickFromSharedSource(dist, rngs, t) ==
  {[i |-> i, rngs |-> [rngs EXCEPT ![1] = (@ + 1) % Cardinality(PrngStates)]] :
     i \in Draws(dist)}

\* pickNextProtocols on thread t: ThreadLocalPRNG() is the generator of the
\* calling thread, which the draw advances; what it gives is i and the
\* generators afterwards.
pickNextProtocols(dist, rngs, t) ==
  {[i |-> i, rngs |-> [rngs EXCEPT ![t] = (@ + 1) % Cardinality(PrngStates)]] :
     i \in Draws(dist)}

\* The setup phase: configuration mutators, run while no thread is in a
\* dispatch.
Setup ==
  /\ AllIdle
  /\ \/ PublishEitherWay("setRandomized", ItemsPhase(Alpn, SharedItems), SharedItems)
     \/ SetSessionLifecycleCallbacks
     \/ SetServerNameCallback
     \/ SlotConstructFresh
     \/ PasswordCollector

\* A handshake on thread t reaches a call into the context; the library
\* dispatches the negotiation callback only while one is registered.
BeginDispatch(t) ==
  \E op \in DispatchOps :
    /\ pc[t].op = "idle"
    /\ op = "alpnSelect" => alpnSelectCb /\ ~alpnDestroyed
    /\ op = "password" => passwdCb
    /\ pc' = [pc EXCEPT ![t] = [op |-> op, i |-> -1]]
    /\ UNCHANGED prng
    /\ UNCHANGED <<credVars, lifeVars, dispVars, alpnVars, verVars, sniVars,
                   slotVars, matchVars, wireVars, protoVars, errVars>>

\* alpnSelectCallback on thread t gets as far as pickNextProtocols.
PickNextProtocols(t) ==
  /\ pc[t].op = "alpnSelect"
  /\ pc[t].i = -1
  /\ advertisedNextProtocols_ # <<>>
  /\ \E r \in pickNextProtocols(nextProtocolDistribution_, prng, t) :
       /\ pc' = [pc EXCEPT ![t].i = r.i]
       /\ prng' = r.rngs
  /\ UNCHANGED <<credVars, lifeVars, dispVars, alpnVars, verVars, sniVars,
                 slotVars, matchVars, wireVars, protoVars, errVars>>

\* What the call thread t is in reads of the context to produce its result.
DispatchResult(t) ==
  CASE pc[t].op = "createSSL" -> {"ssl", "runtime_error"}
    [] pc[t].op = "serverName" ->
         {baseServerNameOpenSSLCallback(TRUE, clientHelloCbs_, serverNameCb_,
                                        result).ret :
            result \in ServerNameCallbackResult}
    [] pc[t].op = "alpnSelect" ->
         {alpnSelectCallback(Alpn, in, pc[t].i, alpnAllowMismatch_).ret :
            in \in PeerOffers}
    [] pc[t].op = "password" ->
         {passwordCallback(TRUE, collector_, size, userPassword).ret :
            size \in 0..MaxSize, userPassword \in Passwords}
    [] pc[t].op = "newSession" ->
         {newSessionCallback(sessionLifecycleCallbacks_, sessionManager).order :
            sessionManager \in BOOLEAN}
    [] pc[t].op = "removeSession" ->
         {IF sessionLifecycleCallbacks_ THEN <<"observer">> ELSE <<>>}

\* The call returns to the handshake of thread t.
FinishDispatch(t) ==
  /\ pc[t].op # "idle"
  /\ pc[t].op = "alpnSelect" => pc[t].i >= 0 \/ advertisedNextProtocols_ = <<>>
  /\ DispatchResult(t) # {}
  /\ pc' = [pc EXCEPT ![t] = Idle]
  /\ UNCHANGED prng
  /\ UNCHANGED <<credVars, lifeVars, dispVars, alpnVars, verVars, sniVars,
                 slotVars, matchVars, wireVars, protoVars, errVars>>

NextConc ==
  \/ Setup
  \/ \E t \in Threads : BeginDispatch(t)
  \/ \E t \in Threads : PickNextProtocols(t)
  \/ \E t \in Threads : FinishDispatch(t)

(***************************************************************************)
(* PROTOCOL VERSION BOUNDS of the handles of contexts built from a version *)
(***************************************************************************)
SSL3_VERSION == 768
TLS1_VERSION == 769
TLS1_2_VERSION == 771
\* The highest version the library supports, which a maximum of 0 stands for.
TLS1_3_VERSION == 772

NoHandle == [state |-> "failed", handle |-> FALSE, min |-> 0, max |-> 0]

InitProto ==
  /\ proto = [o \in Objs |-> [NoHandle EXCEPT !.state = "unborn"]]
  /\ protoLast = [op |-> "none", obj |-> 0, version |-> "none"]

\* configureProtocolVersion on a new handle: the ceiling is TLS 1.2, the
\* floor follows the version; 0 is the library's lowest.
configureProtocolVersion(version) ==
  [state |-> "alive", handle |-> TRUE,
   max |-> TLS1_2_VERSION,
   min |-> CASE version = "TLSv1" -> TLS1_VERSION
             [] version = "SSLv3" -> SSL3_VERSION
             [] version = "TLSv1_2" -> TLS1_2_VERSION
             [] OTHER -> 0]

\* A constructor that does not look at the version before SSL_CTX_new.
ConstructAnyVersion(version, newOk) ==
  IF ~newOk THEN NoHandle ELSE configureProtocolVersion(version)

\* SSLContext::SSLContext(SSLVersion) as far as the version goes; newOk:
\* SSL_CTX_new returned a handle.
SSLContextOfVersion(version, newOk) ==
  IF version = "TLSv1_3" THEN NoHandle
  ELSE IF ~newOk THEN NoHandle
  ELSE configureProtocolVersion(version)

ProtoConstruct ==
  \E o \in Objs, version \in SSLVersions, newOk \in BOOLEAN :
    /\ proto[o].state = "unborn"
    /\ proto' = [proto EXCEPT ![o] = SSLContextOfVersion(version, newOk)]
    /\ protoLast' = [op |-> "construct", obj |-> o, version |-> version]
    /\ UNCHANGED <<credVars, lifeVars, dispVars, alpnVars, verVars, sniVars,
                   slotVars, matchVars, concVars, wireVars,
                   errVars>>

\* enableTLS13: SSL_CTX_set_max_proto_version(ctx_, 0).
EnableTLS13 ==
  \E o \in Objs :
    /\ proto[o].state = "alive"
    /\ proto' = [proto EXCEPT ![o].max = 0]
    /\ protoLast' = [op |-> "enableTLS13", obj |-> o, version |-> "none"]
    /\ UNCHANGED <<credVars, lifeVars, dispVars, alpnVars, verVars, sniVars,
                   slotVars, matchVars, concVars, wireVars,
                   errVars>>

\* disableTLS13: SSL_CTX_set_max_proto_version(ctx_, TLS1_2_VERSION).
DisableTLS13 ==
  \E o \in Objs :
    /\ proto[o].state = "alive"
    /\ proto' = [proto EXCEPT ![o].max = TLS1_2_VERSION]
    /\ protoLast' = [op |-> "disableTLS13", obj |-> o, version |-> "none"]
    /\ UNCHANGED <<credVars, lifeVars, dispVars, alpnVars, verVars, sniVars,
                   slotVars, matchVars, concVars, wireVars,
                   errVars>>

NextProto ==
  \/ ProtoConstruct
  \/ EnableTLS13
  \/ DisableTLS13

(***************************************************************************)
(* THE NATIVE ERROR QUEUE of the thread that configures the context        *)
(***************************************************************************)
\* The longest error queue the model follows.
MaxQueue == 2

NoErrCall == [op |-> "none", res |-> "ok", native |-> FALSE, text |-> <<>>,
              tolerated |-> FALSE, mismatch |-> FALSE]

InitErr ==
  /\ errQueue = <<>>
  /\ errLast = NoErrCall

\* getErrors: the reasons of all queued errors, which ERR_get_error removes
\* from the queue one by one; with nothing queued the text is the errno.
getErrors(q) ==
  [text |-> IF q = <<>> THEN <<"error code">> ELSE q, queue |-> <<>>, native |-> TRUE]

\* A call that ends without looking at the queue.
QueueKept(q) == [text |-> <<>>, queue |-> q, native |-> FALSE]

\* A thrown error that leaves the queue as the failed native call left it.
ThrowWithoutErrors(q) == QueueKept(q)

\* The queue after loadCertificateFromBufferPEM, from q: PEM_read_bio_X509
\* finding no certificate queues an error; at the end of the chain
\* ERR_clear_error() empties the queue.
certificateBufferErrors(q, buf) ==
  IF buf.isNull THEN QueueKept(q)
  ELSE IF buf.certs = <<>> THEN getErrors(Append(q, "PEM_R_NO_START_LINE"))
  ELSE IF Len(buf.certs) - 1 >= kMaxCertChain THEN QueueKept(q)
  ELSE QueueKept(<<>>)

\* The queue after loadPrivateKeyFromBufferPEM on c.
privateKeyBufferErrors(q, c, buf, dropCert) ==
  IF buf.isNull THEN QueueKept(q)
  ELSE IF buf.key = NoKey THEN getErrors(Append(q, "PEM_R_NO_START_LINE"))
  ELSE IF SSL_CTX_use_PrivateKey(c, buf.key, dropCert).ret = 0
       THEN getErrors(Append(q, "X509_R_KEY_VALUES_MISMATCH"))
       ELSE QueueKept(q)

\* The queue after the final check of a combined loader on c:
\* SSL_CTX_check_private_key queues an error when it returns 0, and the
\* loader throws without calling getErrors.
pairCheckErrors(q, c) ==
  IF ~isCertKeyPairValid(c)
  THEN [ThrowWithoutErrors(Append(q, "SSL_CTX_check_private_key")) EXCEPT !.native = TRUE]
  ELSE QueueKept(q)

\* The queue after loadCertKeyPairFromBufferPEM, r1 and r2 being what the
\* certificate call and the key call gave and e1, e2 their queues.
certKeyPairBufferErrors(r1, e1, r2, e2) ==
  IF r1.res # "ok" THEN e1
  ELSE IF r2.res # "ok" THEN e2
  ELSE pairCheckErrors(e2.queue, r2.ctx)

\* A credential call that gave r and left the queue as e says.
ErrStep(r, e, op, mismatch) ==
  /\ Len(e.queue) <= MaxQueue
  /\ CredCore(r, op, "invalid", <<>>)
  /\ errQueue' = e.queue
  /\ errLast' = [op |-> op, res |-> r.res, native |-> e.native /\ r.res # "ok",
                 text |-> e.text, tolerated |-> r.res = "ok" /\ e.queue = <<>>,
                 mismatch |-> mismatch]
  /\ UNCHANGED <<lifeVars, dispVars, alpnVars, verVars, sniVars, slotVars,
                 matchVars, concVars, wireVars, protoVars>>

ErrLoadCertificateFromBufferPEM ==
  \E b \in CertBufs :
    ErrStep(loadCertificateFromBufferPEM(cert, b),
            certificateBufferErrors(errQueue, b),
            "loadCertificateFromBufferPEM", FALSE)

ErrLoadPrivateKeyFromBufferPEM ==
  \E b \in KeyBufs, d \in BOOLEAN :
    ErrStep(loadPrivateKeyFromBufferPEM(cert, b, d),
            privateKeyBufferErrors(errQueue, cert, b, d),
            "loadPrivateKeyFromBufferPEM", FALSE)

ErrLoadCertKeyPairFromBufferPEM ==
  \E cb \in CertBufs, kb \in KeyBufs, d \in BOOLEAN :
    \E r1 \in {loadCertificateFromBufferPEM(cert, cb)},
       e1 \in {certificateBufferErrors(errQueue, cb)} :
      \E r2 \in {ThenKeyFromBuffer(r1, kb, d)},
         e2 \in {privateKeyBufferErrors(e1.queue, r1.ctx, kb, d)} :
        ErrStep(ThenPairCheck(r2), certKeyPairBufferErrors(r1, e1, r2, e2),
                "loadCertKeyPairFromBufferPEM",
                r1.res = "ok" /\ r2.res = "ok" /\ ~isCertKeyPairValid(r2.ctx))

\* unsetNextProtocols: SSL_CTX_set_alpn_protos(ctx_, nullptr, 0) may queue an
\* allocation error (queued), which ERR_clear_error() removes.
ErrUnsetNextProtocols ==
  \E queued \in BOOLEAN :
    /\ ~alpnDestroyed
    /\ AlpnBecomes(unsetNextProtocols(Alpn))
    /\ alpnLast' = [NoAlpnCall EXCEPT !.op = "unset"]
    /\ errQueue' = <<>>
    /\ errLast' = [NoErrCall EXCEPT !.op = "unsetNextProtocols",
                     !.tolerated = queued]
    /\ UNCHANGED <<alpnAllowMismatch_, alpnDestroyed>>
    /\ UNCHANGED <<credVars, lifeVars, dispVars, verVars, sniVars, slotVars,
                   matchVars, concVars, wireVars, protoVars>>

NextErr ==
  \/ ErrLoadCertificateFromBufferPEM
  \/ ErrLoadPrivateKeyFromBufferPEM
  \/ ErrLoadCertKeyPairFromBufferPEM
  \/ ErrUnsetNextProtocols

(***************************************************************************)
(* SPECIFICATIONS                                                          *)
(***************************************************************************)
Init ==
  /\ InitCred /\ InitLife /\ InitDisp /\ InitAlpn /\ InitVer /\ InitSni
  /\ InitSlots /\ InitMatch /\ InitConc /\ alpnGiven = <<>> /\ InitProto /\ InitErr

SpecCred == Init /\ [][NextCred]_vars
SpecLife == Init /\ [][NextLife]_vars
SpecDisp == Init /\ [][NextDisp]_vars
SpecAlpn == Init /\ [][NextAlpn]_vars
SpecVer == Init /\ [][NextVer]_vars
SpecSni == Init /\ [][NextSni]_vars
SpecSlots == Init /\ [][NextSlots]_vars
SpecMatch == Init /\ [][MatchName]_vars
SpecConc == Init /\ [][NextConc]_vars
SpecWire == Init /\ [][SetRandomizedGiven]_vars
SpecProto == Init /\ [][NextProto]_vars
SpecErr == Init /\ [][NextErr]_vars

(***************************************************************************)
(* CLAIMS                                                                  *)
(***************************************************************************)
CombinedLoaders == {"loadCertKeyPairFromBufferPEM", "loadCertKeyPairFromFiles"}
HoldsCertificate == \E t \in KeyTypes : cert.pkeys[t].x509 # NoCert
HoldsPrivateKey == \E t \in KeyTypes : cert.pkeys[t].privatekey # NoKey

\* C1: a combined loader returns normally only with isCertKeyPairValid()
\* true; given a well-formed certificate and a well-formed key that is not
\* the certificate's it raises; given a well-formed matching pair it returns
\* normally.
C1_CombinedLoadersValidate ==
  credLast.op \in CombinedLoaders =>
    /\ credLast.res = "ok" => isCertKeyPairValid(cert)
    /\ credLast.given = "unrelated" => credLast.res # "ok"
    /\ credLast.given = "matching" => credLast.res = "ok"

\* C2: after loading operations that all returned normally, a context that
\* holds a certificate and a private key holds a matching pair.
C2_HeldPairMatches ==
  credLast.allOk /\ HoldsCertificate /\ HoldsPrivateKey => isCertKeyPairValid(cert)

\* A native callback can fire for handle h: the handle is live, the session
\* callbacks are set on it and a connection made from it exists.
CallbackCanFire(h) == hstate[h] = "live" /\ sessCb[h] /\ sslRefs[h] > 0

\* C3: wherever a native callback can fire for a handle, getFromSSLCtx of the
\* handle is a context that is alive and whose handle is that handle.
C3_HandleYieldsLiveOwner ==
  \A h \in Handles :
    CallbackCanFire(h) =>
      /\ getFromSSLCtx(h) # 0
      /\ objState[getFromSSLCtx(h)] = "alive"
      /\ ctx_[getFromSSLCtx(h)] = h

AliveOn(h) == {o \in Objs : objState[o] = "alive" /\ ctx_[o] = h}

\* C4: an alive context has a non-null, live handle; every handle's reference
\* count is one per alive context on it plus the references of the caller and
\* of the connections; a fresh construction leaves the count at 1, an
\* adoption adds one, a destruction takes one away, and a handle the caller
\* still holds stays live.
C4_HandleOwnership ==
  /\ \A o \in Objs : objState[o] = "alive" => ctx_[o] # 0 /\ hstate[ctx_[o]] = "live"
  /\ \A h \in Handles :
       /\ refcount[h] = Cardinality(AliveOn(h)) + callerRefs[h] + sslRefs[h]
       /\ callerRefs[h] > 0 => hstate[h] = "live"
  /\ lifeLast.op = "construct" => refcount[lifeLast.h] = 1
  /\ lifeLast.op = "adopt" => refcount[lifeLast.h] = lifeLast.before + 1
  /\ lifeLast.op = "destroy" => refcount[lifeLast.h] = lifeLast.before - 1

\* An adopting context has been destroyed and the handle is back with the
\* caller alone, still live.
C4_Witness ==
  /\ lifeLast.op = "destroy"
  /\ objAdopted[lifeLast.obj]
  /\ callerRefs[lifeLast.h] = 1
  /\ refcount[lifeLast.h] = 1
  /\ hstate[lifeLast.h] = "live"

\* C5: a session's reference count is the references its holders have; a
\* new-session notification disposes of the one reference it received (to
\* the session manager if there is one, released otherwise) and gives the
\* observer, if registered, one reference more; a remove-session
\* notification leaves the count alone.
C5_SessionReferenceBalance ==
  /\ \A s \in Sessions :
       sessRef[s] = sessHeld[s].lib + sessHeld[s].observer + sessHeld[s].manager
  /\ dispLast.op = "newSession" =>
       /\ dispLast.toManager = (IF dispLast.manager THEN 1 ELSE 0)
       /\ dispLast.released = (IF dispLast.manager THEN 0 ELSE 1)
       /\ dispLast.toObserver = (IF dispLast.observer THEN 1 ELSE 0)
       /\ sessRef[dispLast.s] = dispLast.before + dispLast.toObserver + dispLast.toManager
  /\ dispLast.op = "removeSession" => sessRef[dispLast.s] = dispLast.before

\* A new session went to both an observer and a session manager.
C5_Witness ==
  /\ dispLast.op = "newSession"
  /\ dispLast.observer /\ dispLast.manager
  /\ sessRef[dispLast.s] = dispLast.before + 2

\* C6: while the ticket callback is registered a ticket handler is installed,
\* and no ticket dispatch is fatal.
C6_RegisteredImpliesHandler ==
  /\ ticketCbRegistered => ticketHandler_ # 0
  /\ ~dispLast.fatal

SetOps == {"set", "setRandomized"}
AlpnDisabled ==
  /\ advertisedNextProtocols_ = <<>>
  /\ ~alpnSelectCb
  /\ getAdvertisedNextProtocols(Alpn) = <<>>

\* C7: a call given a name of kProtoLengthLimit bytes or more returns false
\* and leaves no group, no weight, no negotiation callback, an empty
\* advertised string and no buffer allocated.
C7_OversizedNameDisables ==
  alpnLast.op \in SetOps /\ alpnLast.oversized =>
    /\ alpnLast.ret = "false"
    /\ AlpnDisabled
    /\ advertisedNextProtocolWeights_ = <<>>
    /\ DOMAIN heap = {}

\* The randomized call has refused a name that is too long.
C7_Witness ==
  /\ alpnLast.op = "setRandomized"
  /\ alpnLast.oversized
  /\ alpnLast.ret = "false"
  /\ alpnLast.total > 0

\* C8: a call returns true only if the publish step succeeded, and after a
\* call that returned false ALPN is disabled (stated for calls whose kept
\* weights do not add up to less than 0).
C8_FalseMeansDisabled ==
  alpnLast.op \in SetOps /\ alpnLast.total >= 0 =>
    /\ alpnLast.ret = "true" => alpnLast.publishOk
    /\ alpnLast.ret = "false" => AlpnDisabled

\* C9: after a call the advertisement is enabled only if the total weight of
\* the kept groups is > 0; with a total that is not > 0 the call returns
\* false and leaves negotiation disabled (stated for calls whose publish
\* step, if reached, succeeds).
C9_EnabledOnlyWithPositiveTotal ==
  alpnLast.op \in SetOps /\ alpnLast.publishOk =>
    /\ advertisedNextProtocols_ # <<>> /\ alpnSelectCb => alpnLast.total > 0
    /\ alpnLast.total <= 0 => alpnLast.ret = "false" /\ AlpnDisabled

\* C10: the group list and the weight list have the same length, and a draw
\* at negotiation time picks an index of the list whose weight is > 0.
C10_DrawsPositiveWeight ==
  /\ Len(advertisedNextProtocols_) = Len(advertisedNextProtocolWeights_)
  /\ alpnLast.op = "select" /\ alpnLast.pick >= 0 =>
       /\ alpnLast.pick < Len(advertisedNextProtocols_)
       /\ advertisedNextProtocolWeights_[alpnLast.pick + 1] > 0

RECURSIVE WireNames(_, _)
\* The names of a wire-format protocol list, in order, from offset i.
WireNames(buf, i) ==
  IF i >= Len(buf) THEN <<>>
  ELSE <<SubSeq(buf, i + 2, i + 1 + buf[i + 1])>> \o WireNames(buf, i + buf[i + 1] + 1)
Range(f) == {f[k] : k \in DOMAIN f}
\* The last step was a negotiation on a stored group.
SelectedOnGroup ==
  /\ alpnLast.op = "select"
  /\ alpnLast.pick >= 0
  /\ alpnLast.pick < Len(advertisedNextProtocols_)
ChosenGroup == WireNames(heap[advertisedNextProtocols_[alpnLast.pick + 1].protocols], 0)
PeerList == WireNames(alpnLast.in, 0)
Overlap == Range(PeerList) \cap Range(ChosenGroup) # {}
\* The first name of the peer's list that the chosen group has.
FirstOfPeerInGroup ==
  PeerList[CHOOSE k \in 1..Len(PeerList) :
             /\ PeerList[k] \in Range(ChosenGroup)
             /\ \A j \in 1..(k - 1) : PeerList[j] \notin Range(ChosenGroup)]

\* C11: when the peer's offer and the chosen group share a protocol, the
\* negotiation callback succeeds and selects the first protocol of the
\* peer's list that the chosen group has.
C11_SelectsPeersFirstCommon ==
  SelectedOnGroup /\ Overlap =>
    /\ alpnLast.ret = "SSL_TLSEXT_ERR_OK"
    /\ alpnLast.out = FirstOfPeerInGroup

\* C12: alpnAllowMismatch_ starts true and changes only in
\* setAlpnAllowMismatch; a negotiation in which no protocol of the chosen
\* group is in the peer's offer returns NOACK when it is true and a fatal
\* alert when it is false.
C12_MismatchPolicy ==
  /\ alpnAllowMismatch_ = TRUE
  /\ [](SelectedOnGroup /\ ~Overlap =>
          alpnLast.ret = IF alpnAllowMismatch_ THEN "SSL_TLSEXT_ERR_NOACK"
                         ELSE "SSL_TLSEXT_ERR_ALERT_FATAL")
  /\ [][alpnAllowMismatch_' # alpnAllowMismatch_ =>
          alpnLast'.op = "setAlpnAllowMismatch"]_vars

\* A negotiation without overlap has ended in a fatal alert.
C12_Witness ==
  /\ SelectedOnGroup /\ ~Overlap
  /\ ~alpnAllowMismatch_
  /\ alpnLast.ret = "SSL_TLSEXT_ERR_ALERT_FATAL"


HasBit(mode, bit) == (mode \div bit) % 2 = 1
NameCheckActive == checkPeerName_ \/ peerFixedName_ # ""

\* C13: on a context built by either constructor, after any sequence of
\* authenticate calls, a name check is active (checkPeerName() true or
\* peerFixedName() non-empty) only if the verify mode requires peer
\* verification; after authenticate(true, n, p) the mode is
\* PEER | FAIL_IF_NO_PEER_CERT | CLIENT_ONCE with checkPeerName = n and pinned
\* name p; after authenticate(false, *, *) the mode is NONE, checkPeerName is
\* false and the pinned name is empty.
C13_AuthenticateInvariant ==
  verBuilt # "none" =>
    /\ NameCheckActive => HasBit(verifyMode, SSL_VERIFY_PEER)
    /\ verLast.op = "authenticate" /\ verLast.cert =>
         /\ verifyMode = SSL_VERIFY_PEER + SSL_VERIFY_FAIL_IF_NO_PEER_CERT
                           + SSL_VERIFY_CLIENT_ONCE
         /\ checkPeerName_ = verLast.name
         /\ peerFixedName_ = verLast.peer
    /\ verLast.op = "authenticate" /\ ~verLast.cert =>
         /\ verifyMode = SSL_VERIFY_NONE
         /\ checkPeerName_ = FALSE
         /\ peerFixedName_ = ""

PeerAsked ==
  \/ verifyClient_ \in {"ALWAYS", "IF_PRESENTED"}
  \/ verifyServer_ = "IF_PRESENTED"
  \/ verifyPeer_ \in {"VERIFY", "VERIFY_REQ_CLIENT_CERT"}
FailAsked == verifyClient_ = "ALWAYS" \/ verifyPeer_ = "VERIFY_REQ_CLIENT_CERT"

\* C14: whenever the legacy enum is not USE_CTX, getVerificationMode() has the
\* PEER bit exactly when one of the three policies asks for it (ALWAYS,
\* IF_PRESENTED, VERIFY, VERIFY_REQ_CLIENT_CERT), the FAIL_IF_NO_PEER_CERT bit
\* exactly when ALWAYS or VERIFY_REQ_CLIENT_CERT is stored, and no other bit
\* (the bitwise OR of the three resolved modes); needsPeerVerification() is
\* true iff that mode is non-zero.
C14_ModeIsOrOfPolicies ==
  verifyPeer_ # "USE_CTX" =>
    /\ getVerificationMode.res = "ok"
    /\ getVerificationMode.mode =
         (IF PeerAsked THEN SSL_VERIFY_PEER ELSE SSL_VERIFY_NONE)
           + (IF FailAsked THEN SSL_VERIFY_FAIL_IF_NO_PEER_CERT ELSE SSL_VERIFY_NONE)
    /\ needsPeerVerification <=> (PeerAsked \/ FailAsked)

C14_Witness ==
  /\ verifyClient_ = "ALWAYS"
  /\ verifyServer_ = "IF_PRESENTED"
  /\ verifyPeer_ = "VERIFY"
  /\ getVerificationMode.mode = SSL_VERIFY_PEER + SSL_VERIFY_FAIL_IF_NO_PEER_CERT
  /\ needsPeerVerification

\* C15: the stored legacy enum is never USE_CTX, and a call of
\* setVerificationOption or of the static getVerificationMode with USE_CTX ends
\* in an invalid-argument failure reported to the caller, the stored policy
\* unchanged.
C15_UseCtxRejected ==
  /\ verifyPeer_ # "USE_CTX"
  /\ verLast.arg = "USE_CTX" => verLast.res = "invalid_argument"


Baseline(h, o) ==
  /\ {"SSL_OP_NO_COMPRESSION", "SSL_MODE_AUTO_RETRY",
      "SSL_SESS_CACHE_NO_INTERNAL"} \subseteq hopts[h]
  /\ sessCb[h]
  /\ exData[h] = o
  /\ sniArg[h] = o

\* C16: when either constructor returns, the handle has compression disabled,
\* auto-retry enabled, the internal session cache disabled with the session
\* callbacks registered, the ex data set to the context and the server-name
\* callback registered with the context as its argument; the adopting
\* constructor sets no protocol version bound on a handle made elsewhere.
C16_BaselineAfterConstruction ==
  /\ lifeLast.op \in {"construct", "adopt"} => Baseline(lifeLast.h, lifeLast.obj)
  /\ lifeLast.op = "adopt" /\ callerRefs[lifeLast.h] > 0 =>
       "min_proto_version" \notin hopts[lifeLast.h]


\* C17: a credential call that fails leaves the credential state (leaf
\* certificates, chains, private keys) as it was before the call.
C17_FailureKeepsState == credLast.res # "ok" => ~credLast.changed

LoadedBuffer == credLast.op = "loadCertificateFromBufferPEM" /\ credLast.n >= 1
CurrentChain == cert.pkeys[cert.key].chain

\* C18: loadCertificateFromBufferPEM on a buffer of n >= 1 well-formed
\* certificates succeeds iff n <= 64 and fails with a runtime error iff
\* n >= 65; on success the first certificate is the leaf of the current slot
\* and the other n - 1 are, in their order, the last n - 1 certificates of its
\* chain.
C18_ChainLengthBound ==
  LoadedBuffer =>
    /\ credLast.res = "ok" <=> credLast.n <= kMaxCertChain
    /\ credLast.n >= kMaxCertChain + 1 => credLast.res = "runtime_error"
    /\ credLast.res = "ok" =>
         /\ cert.pkeys[cert.key].x509 = credLast.leaf
         /\ Len(CurrentChain) >= credLast.n - 1
         /\ SubSeq(CurrentChain, Len(CurrentChain) - credLast.n + 2,
                   Len(CurrentChain)) = CaChain(credLast.n - 1)

C18_Witness ==
  /\ LoadedBuffer
  /\ credLast.n = kMaxCertChain
  /\ credLast.res = "ok"
  /\ CurrentChain = CaChain(kMaxCertChain - 1)


Dispatched == sniLast.op = "dispatch" /\ sniLast.context
Registered == Invoked(clientHelloCbs_, Len(clientHelloCbs_))

\* C19: on every dispatch with a recovered context the callbacks invoked are
\* the registered client-hello callbacks, each once and in registration order,
\* followed by the server-name callback at most once; the client-hello
\* callbacks run whether or not a server-name callback is set.
C19_DispatchOrder ==
  Dispatched => sniLast.log = Registered \/ sniLast.log = Registered \o <<0>>

\* C20: the dispatch returns SSL_TLSEXT_ERR_NOACK when no context is recovered
\* or no server-name callback is set; otherwise SERVER_NAME_FOUND gives
\* SSL_TLSEXT_ERR_OK, SERVER_NAME_NOT_FOUND gives SSL_TLSEXT_ERR_NOACK and
\* SERVER_NAME_NOT_FOUND_ALERT_FATAL gives SSL_TLSEXT_ERR_ALERT_FATAL with *al
\* set to TLS1_AD_UNRECOGNIZED_NAME; there is no other outcome, and *al is
\* written only in the fatal case.
C20_DispatchResult ==
  sniLast.op = "dispatch" =>
    /\ ~sniLast.context \/ ~serverNameCb_ => sniLast.ret = "SSL_TLSEXT_ERR_NOACK"
    /\ sniLast.ret \in {"SSL_TLSEXT_ERR_OK", "SSL_TLSEXT_ERR_NOACK",
                        "SSL_TLSEXT_ERR_ALERT_FATAL"}
    /\ sniLast.result = "SERVER_NAME_FOUND" => sniLast.ret = "SSL_TLSEXT_ERR_OK"
    /\ sniLast.result = "SERVER_NAME_NOT_FOUND" => sniLast.ret = "SSL_TLSEXT_ERR_NOACK"
    /\ sniLast.result = "SERVER_NAME_NOT_FOUND_ALERT_FATAL" =>
         sniLast.ret = "SSL_TLSEXT_ERR_ALERT_FATAL"
    /\ sniLast.al = "TLS1_AD_UNRECOGNIZED_NAME" <=>
         sniLast.ret = "SSL_TLSEXT_ERR_ALERT_FATAL"
    /\ sniLast.context /\ serverNameCb_ => sniLast.result # "none"


\* C21: a client-hello callback that throws does not end the dispatch: with a
\* recovered context the dispatch returns a result code, every registered
\* client-hello callback has been invoked, and so has the server-name
\* callback when one is set.
C21_FailuresSwallowed ==
  Dispatched =>
    /\ sniLast.ret # "exception"
    /\ Len(sniLast.log) = Len(clientHelloCbs_) + (IF serverNameCb_ THEN 1 ELSE 0)

\* C22: a new-session notification tells the observer, when one is
\* registered, and then the session manager, when the connection has one,
\* each exactly once: the observer before the manager, and the manager
\* whether or not an observer is registered.
C22_ObserverBeforeManager ==
  dispLast.op = "newSession" =>
    dispLast.order = (IF dispLast.observer THEN <<"observer">> ELSE <<>>)
                       \o (IF dispLast.manager THEN <<"manager">> ELSE <<>>)

C22_Witness ==
  /\ dispLast.op = "newSession"
  /\ dispLast.observer
  /\ dispLast.manager
  /\ dispLast.order = <<"observer", "manager">>

CalledPassword == slotLast.op = "passwordCallback"

\* C23: passwordCallback returns 0 and writes nothing when no context is
\* recovered or no collector is registered; otherwise it asks the collector
\* once, returns min(length of the password, size), copies exactly that many
\* bytes of the password to the start of the buffer and writes nothing past
\* the size bytes of the buffer.
C23_PasswordBounded ==
  CalledPassword =>
    /\ Len(slotLast.password) = slotLast.size
    /\ IF ~slotLast.context \/ collector_ = 0
       THEN /\ slotLast.ret = 0
            /\ slotLast.asked = 0
            /\ \A i \in 1..slotLast.size : slotLast.password[i] = 0
       ELSE /\ slotLast.asked = 1
            /\ slotLast.ret <= slotLast.size
            /\ slotLast.ret <= Len(slotLast.userPassword)
            /\ slotLast.ret = slotLast.size \/ slotLast.ret = Len(slotLast.userPassword)
            /\ \A i \in 1..slotLast.size :
                 slotLast.password[i] =
                   IF i <= slotLast.ret THEN slotLast.userPassword[i] ELSE 0

C23_Witness ==
  /\ CalledPassword
  /\ slotLast.context
  /\ collector_ # 0
  /\ Len(slotLast.userPassword) > slotLast.size
  /\ slotLast.size > 0
  /\ slotLast.ret = slotLast.size

\* C24: on a context built by either constructor, after any sequence of
\* sslAcceptRunner(r) calls, sslAcceptRunner() is not null; the default runner
\* calls the accept function and then, once, the finalization function with
\* the accept function's result.
C24_RunnerNeverNull ==
  /\ slotBuilt # "none" => sslAcceptRunner_ # 0
  /\ slotLast.op = "run" =>
       slotLast.log = <<[fn |-> "acceptFunc", arg |-> 0],
                        [fn |-> "finallyFunc", arg |-> slotLast.ret]>>

\* C28: loadClientCAList on a file that cannot be loaded returns normally and
\* changes nothing: not the client CA list, not any other variable of the
\* context; the client CA list changes only in a loadClientCAList call that
\* loaded its file, and is then the loaded list.
C28_ClientCABestEffort ==
  /\ [][slotLast'.op = "loadClientCAList" /\ slotLast'.file = 0 =>
          UNCHANGED <<clientCAs, slotBuilt, collector_, passwdCb, sslAcceptRunner_,
                      credVars, lifeVars, dispVars, alpnVars, verVars, sniVars>>]_vars
  /\ [][clientCAs' # clientCAs =>
          /\ slotLast'.op = "loadClientCAList"
          /\ slotLast'.file # 0
          /\ clientCAs' = slotLast'.file]_vars

C28_Witness ==
  /\ slotLast.op = "loadClientCAList"
  /\ slotLast.file = 0
  /\ clientCAs # 0


\* C29: after unsetNextProtocols there is no stored group, no stored weight,
\* no negotiation callback and no published offer, and unsetNextProtocols
\* applied again gives the same state.
C29_UnsetIdempotent ==
  alpnLast.op = "unset" =>
    /\ advertisedNextProtocols_ = <<>>
    /\ advertisedNextProtocolWeights_ = <<>>
    /\ ~alpnSelectCb
    /\ alpnProtos = <<>>
    /\ unsetNextProtocols(Alpn) = Alpn

\* an unset on a context that had groups stored and published before
C29_Witness ==
  /\ alpnLast.op = "unset"
  /\ nextProtocolDistribution_ # <<>>
  /\ advertisedNextProtocols_ = <<>>

RECURSIVE Join(_)
Join(names) ==
  IF names = <<>> THEN <<>>
  ELSE IF Len(names) = 1 THEN names[1]
  ELSE names[1] \o <<44>> \o Join(Tail(names))

\* C30: after a set call that returned true, getAdvertisedNextProtocols() is
\* the names of the first group given with a non-empty name list, joined by
\* "," in their order; with no group stored it is the empty string.
C30_AdvertisedRoundTrip ==
  /\ alpnLast.op \in SetOps /\ alpnLast.ret = "true" =>
       getAdvertisedNextProtocols(Alpn) = Join(alpnLast.first)
  /\ advertisedNextProtocols_ = <<>> => getAdvertisedNextProtocols(Alpn) = <<>>

C30_Witness ==
  /\ alpnLast.op \in SetOps
  /\ alpnLast.ret = "true"
  /\ alpnLast.first = <<NameLong, NameEmpty, NameA>>
  /\ getAdvertisedNextProtocols(Alpn) = NameLong \o <<44, 44>> \o NameA


RECURSIVE WildcardMatch(_, _)
\* The reference matcher: host is pattern with every "*" replaced by a run of
\* characters other than ".", letters compared without case.
WildcardMatch(host, pattern) ==
  IF pattern = <<>> THEN host = <<>>
  ELSE IF pattern[1] = "*"
       THEN \E k \in 0..Len(host) :
              /\ \A m \in 1..k : host[m] # "."
              /\ WildcardMatch(SubSeq(host, k + 1, Len(host)), Tail(pattern))
       ELSE /\ host # <<>>
            /\ toupper(host[1]) = toupper(pattern[1])
            /\ WildcardMatch(Tail(host), Tail(pattern))

Matched == matchLast.op = "matchName"

\* C26: matchName(host, pattern) is true exactly when the whole host is,
\* without regard to case, the whole pattern with each "*" replaced by a run
\* of zero or more characters other than ".".
C26_AgreesWithReference ==
  Matched => (matchLast.match <=> WildcardMatch(matchLast.host, matchLast.pattern))

Dots(str) == Cardinality({k \in DOMAIN str : str[k] = "."})

\* C27: when matchName(host, pattern) is true, host and pattern have the same
\* number of "."; "*.example.com" matches "foo.example.com" and matches
\* neither "example.com" nor "a.b.example.com".
C27_WildcardSpansOneLabel ==
  Matched =>
    /\ matchLast.match => Dots(matchLast.host) = Dots(matchLast.pattern)
    /\ matchLast.pattern = StarExampleCom =>
         (matchLast.match <=> matchLast.host = <<"f", "o", "o", ".">> \o ExampleCom)

C27_Witness ==
  /\ Matched
  /\ matchLast.pattern = StarExampleCom
  /\ matchLast.host = <<"f", "o", "o", ".">> \o ExampleCom
  /\ matchLast.match


\* The fields of the context and of its native handle.
ContextFields == <<credVars, lifeVars, dispVars, alpnVars, verVars, sniVars, slotVars>>

\* C25: with configuration mutators run only while no thread is in a
\* dispatch, every step taken while some thread is in createSSL or in a
\* callback dispatch leaves every context field as it was, so that the
\* configuration is the same after the dispatches as before them; and a draw
\* of a protocol group advances the generator of the drawing thread only.
C25_ReadOnlySharing ==
  [][/\ (\E t \in Threads : pc[t].op # "idle" \/ pc'[t].op # "idle")
          => UNCHANGED ContextFields
     /\ \A t \in Threads :
          prng'[t] # prng[t] =>
            /\ pc[t].op = "alpnSelect" /\ pc[t].i = -1 /\ pc'[t].i >= 0
            /\ \A u \in Threads \ {t} : prng'[u] = prng[u] /\ pc'[u] = pc[u]]_vars

C25_Witness ==
  /\ Len(advertisedNextProtocols_) > 1
  /\ \A t \in Threads : pc[t].op = "alpnSelect" /\ pc[t].i >= 0 /\ prng[t] # 0
  /\ pc[1].i # pc[2].i


RECURSIVE WireFormat(_)
\* The wire format of a name list: for each name one byte holding its length,
\* then its bytes.
WireFormat(names) ==
  IF names = <<>> THEN <<>>
  ELSE <<Len(Head(names))>> \o Head(names) \o WireFormat(Tail(names))

RECURSIVE WireLength(_)
WireLength(names) ==
  IF names = <<>> THEN 0 ELSE 1 + Len(Head(names)) + WireLength(Tail(names))

HasNames(item) == item.protocols # <<>>

\* C31: after a set call that returned true, the stored groups and weights are
\* those of the given groups that have names, in the order given and nothing
\* else; every group's buffer is the wire format of its names, is as long as
\* allocated, and the recorded length is the sum of 1 + the name lengths.
C31_WireEncoding ==
  alpnLast.op = "setRandomized" /\ alpnLast.ret = "true" =>
    /\ Len(advertisedNextProtocols_) = Len(SelectSeq(alpnGiven, HasNames))
    /\ Len(advertisedNextProtocolWeights_) = Len(advertisedNextProtocols_)
    /\ \A k \in 1..Len(advertisedNextProtocols_) :
         /\ advertisedNextProtocols_[k].protocols \in DOMAIN heap
         /\ heap[advertisedNextProtocols_[k].protocols]
              = WireFormat(SelectSeq(alpnGiven, HasNames)[k].protocols)
         /\ advertisedNextProtocols_[k].length
              = WireLength(SelectSeq(alpnGiven, HasNames)[k].protocols)
         /\ Len(heap[advertisedNextProtocols_[k].protocols])
              = advertisedNextProtocols_[k].length
         /\ advertisedNextProtocolWeights_[k]
              = SelectSeq(alpnGiven, HasNames)[k].weight

\* A set call that succeeded on a group without names and a group with one.
C31_Witness ==
  /\ alpnLast.op = "setRandomized" /\ alpnLast.ret = "true"
  /\ Len(alpnGiven) = 2
  /\ alpnGiven[1].protocols = <<>>
  /\ alpnGiven[2].protocols = <<NameD>>
  /\ Len(advertisedNextProtocols_) = 1


\* The buffers the stored group list refers to.
Referenced == {advertisedNextProtocols_[k].protocols : k \in DOMAIN advertisedNextProtocols_}

\* C32: in every state reached by set, unset, delete and destroy calls, every
\* stored group refers to an allocated buffer of its own (none was freed while
\* referenced, and no later free can hit a buffer twice), every allocated
\* buffer is referred to by a stored group (so the next delete frees it), and
\* after destruction no buffer is allocated.
C32_BufferLifecycle ==
  /\ Referenced \subseteq DOMAIN heap
  /\ \A j, k \in DOMAIN advertisedNextProtocols_ :
       advertisedNextProtocols_[j].protocols = advertisedNextProtocols_[k].protocols
         => j = k
  /\ DOMAIN heap \subseteq Referenced
  /\ alpnDestroyed => DOMAIN heap = {}

\* A context destroyed after a call had stored two groups.
C32_Witness ==
  /\ alpnDestroyed
  /\ alpnLast.op = "destroy"
  /\ Len(nextProtocolDistribution_) = 2
  /\ DOMAIN heap = {}


\* C35: after every set, unset and delete call the negotiation callback is
\* registered exactly when the stored group list is not empty, and a
\* dispatched negotiation callback that reports success has selected a
\* protocol.
C35_CallbackTracksGroups ==
  /\ alpnLast.op \in {"set", "setRandomized", "unset", "delete"}
       => (alpnSelectCb <=> advertisedNextProtocols_ # <<>>)
  /\ alpnLast.op = "select" /\ alpnLast.ret = "SSL_TLSEXT_ERR_OK"
       => alpnLast.out # <<>>


\* The versions a pair of bounds admits: 0 stands for the lowest, or the
\* highest, version the library supports.
LowestAllowed(o) == IF proto[o].min = 0 THEN SSL3_VERSION ELSE proto[o].min
HighestAllowed(o) == IF proto[o].max = 0 THEN TLS1_3_VERSION ELSE proto[o].max

\* C33: constructing a context with the version TLSv1_3 fails and creates no
\* native handle; and the handle of every context built from a version has,
\* after any enableTLS13 and disableTLS13 calls, a minimum version that is at
\* most its maximum version.
C33_VersionBounds ==
  /\ protoLast.op = "construct" /\ protoLast.version = "TLSv1_3"
       => proto[protoLast.obj].state = "failed" /\ ~proto[protoLast.obj].handle
  /\ \A o \in Objs :
       /\ proto[o].handle <=> proto[o].state = "alive"
       /\ proto[o].state = "alive" => LowestAllowed(o) <= HighestAllowed(o)

\* One context refused for its version, another built for TLS 1.2 and later
\* with TLS 1.3 enabled.
C33_Witness ==
  /\ protoLast.op = "construct" /\ protoLast.version = "TLSv1_3"
  /\ \E o \in Objs :
       /\ proto[o].state = "alive"
       /\ proto[o].min = TLS1_2_VERSION
       /\ proto[o].max = 0


\* C36: an authenticate call leaves verifyPeer_, verifyClient_ and
\* verifyServer_ as they were, so getVerificationMode() and
\* needsPeerVerification() give the same before and after it; a
\* setVerificationOption call leaves the verify mode of the handle,
\* checkPeerName_ and peerFixedName_ as they were.
C36_AuthenticateAndPolicyIndependent ==
  [][/\ verLast'.op = "authenticate" =>
          /\ UNCHANGED <<verBuilt, verifyPeer_, verifyClient_, verifyServer_>>
          /\ getVerificationMode' = getVerificationMode
          /\ needsPeerVerification' = needsPeerVerification
     /\ verLast'.op = "setVerificationOption" =>
          UNCHANGED <<verifyMode, checkPeerName_, peerFixedName_>>]_vars

\* After authenticate the handle verifies the peer and the name is checked,
\* while the policy fields still ask for no verification.
C36_Witness ==
  /\ verLast.op = "authenticate" /\ verLast.cert
  /\ checkPeerName_ /\ peerFixedName_ = "host"
  /\ verifyMode # SSL_VERIFY_NONE
  /\ verifyPeer_ = "NO_VERIFY"
  /\ ~needsPeerVerification

\* C37: after a loadCertificateFromBufferPEM call that succeeded, the current
\* slot holds the leaf of the buffer and its chain is the chain of the buffer
\* and nothing else; and no slot's chain is ever longer than kMaxCertChain.
C37_ChainReplaced ==
  /\ LoadedBuffer /\ credLast.res = "ok" =>
       /\ cert.pkeys[cert.key].x509 = credLast.leaf
       /\ CurrentChain = CaChain(credLast.n - 1)
  /\ \A t \in KeyTypes : Len(cert.pkeys[t].chain) <= kMaxCertChain


\* C34: after a call that failed because a native call failed, the error
\* raised carries the text of the queued native errors and the queue is
\* empty; the queue is empty after a loadCertificateFromBufferPEM that
\* reached the end of the chain, after unsetNextProtocols, and after a
\* combined loader that failed because certificate and key do not match.
C34_ErrorQueueHygiene ==
  /\ errLast.native => errLast.text # <<>> /\ errQueue = <<>>
  /\ errLast.op = "loadCertificateFromBufferPEM" /\ errLast.res = "ok"
       => errQueue = <<>>
  /\ errLast.op = "unsetNextProtocols" => errQueue = <<>>
  /\ errLast.mismatch => errQueue = <<>>

====
